---------------------------- MODULE Spec2Model ----------------------------
(***************************************************************************)
(* Proxy pool lifecycle and session orchestration of ViewsYT.              *)
(*                                                                         *)
(*   Spec    the orchestrator loop of src/index.js (main, watchVideo,      *)
(*           quickCheckProxy, getProxyAgent, fetchProxies)                 *)
(*   SpecPM  the ProxyManager class of src/unnamed/part_002                *)
(*   SpecAPI  the ProxyManager taking proxies in (initialize,              *)
(*           testAndAddProxy, fetchProxiesFromAPI)                         *)
(*   SpecProxy  the Proxy class of src/unnamed/part_003                    *)
(*   SpecWatch  the watch phase of a session, from the draw of the watch   *)
(*           duration to the return (index.js, part_000, part_005)         *)
(*   SpecBoth  main() of index.js and main() of the second script of       *)
(*           part_000 side by side on the same inputs                      *)
(*   SpecSecond  fetchProxies() of the second script of part_000           *)
(*   SpecCheck  one quickCheckProxy call, callback by callback             *)
(***************************************************************************)
EXTENDS Integers, Sequences, FiniteSets, TLC

(***************************************************************************)
(* Bounds of the model (not program constants).                            *)
(***************************************************************************)
\* longest list one fetchProxies() call returns
MaxPool == 2
\* largest view count the user asks for
MaxTarget == 5
\* longest list of user-provided proxies handed to the ProxyManager constructor
MaxUserProxies == 2
\* longest list of user-provided proxies handed to the Proxy constructor
MaxSimpleProxies == 3
\* largest short watch duration that is configured, in seconds
MaxDuration == 12
\* number of equidistant values of Math.random() in [0, 1)
RandomResolution == 128
\* reportProxyFailure is not called on a proxy whose counter reached this value
MaxReportedFailures == 4
\* longest of the short candidate lists the proxy API answers with
MaxCandidates == 2
\* longest list of a source whose lists hold one proxy that always answers
MaxLongPool == 21
\* longest content of the working-proxies file
MaxPersisted == 2
\* most entries one provider answers with
MaxProvided == 1
\* latest reading of the clock during a quick check
MaxNow == 4

(***************************************************************************)
(* Program constants of src/index.js.                                      *)
(***************************************************************************)
MAX_RETRIES == 3
MAX_PROXIES_TO_TRY == 100
FAILURE_REFRESH_THRESHOLD == 20

SUPPORTED_PROTOCOLS == {"http", "https", "socks4", "socks5"}

(***************************************************************************)
(* Proxy records.  A record is identified by (protocol, host, port).       *)
(* GeoNode reports any protocol string; ProxyScrape is queried once per    *)
(* supported protocol.                                                     *)
(***************************************************************************)
Protocols == {"http", "ftp"}
Hosts == {"h1"}
Ports == {80}

ProxyRecords == [protocol : Protocols, host : Hosts, port : Ports]

\* the value of proxies[i] for an index outside the array (JavaScript's
\* undefined), written as a record so that it compares with proxy records
Undefined == [protocol |-> "undefined", host |-> "undefined", port |-> 0]
\* no proxy bound yet (`const proxy` is scoped to one loop iteration)
NoProxy == [protocol |-> "none", host |-> "none", port |-> 0]
\* JavaScript's NaN, the value of x % 0, written as an integer no index equals
NaN == 0 - 1

\* all sequences over S of length at most n
SeqUpTo(S, n) == UNION { [1..k -> S] : k \in 0..n }

\* the identity key `${protocol}://${host}:${port}`
Key(p) == <<p.protocol, p.host, p.port>>

\* the permutations of a sequence: what Array.sort with a random comparator
\* can produce
Shuffles(s) ==
    { [i \in 1..Len(s) |-> s[f[i]]] :
        f \in { g \in [1..Len(s) -> 1..Len(s)] :
                  \A i, j \in 1..Len(s) : i # j => g[i] # g[j] } }

\* records the GeoNode request can contribute (empty when the request fails)
GeoNodeLists == SeqUpTo(ProxyRecords, MaxPool)

\* records the ProxyScrape requests can contribute
ProxyScrapeLists ==
    SeqUpTo({ p \in ProxyRecords : p.protocol \in SUPPORTED_PROTOCOLS }, MaxPool)

\* fetchProxies(): both providers' records concatenated, then shuffled
FetchProxies ==
    UNION { Shuffles(g \o s) :
              <<g, s>> \in { gs \in GeoNodeLists \X ProxyScrapeLists :
                               Len(gs[1]) + Len(gs[2]) <= MaxPool } }

\* getProxyAgent(proxy): an agent, or null for an unsupported protocol
GetProxyAgent(p) == IF p.protocol \in SUPPORTED_PROTOCOLS THEN "agent" ELSE "null"

VARIABLES
    pc,                   \* position of main() / watchVideo()
    outcome,              \* how main() ended
    viewCount,            \* requested number of views
    proxies,              \* the proxy list of main()
    successfulViews,
    currentProxyIndex,
    triedProxies,
    consecutiveFailures,
    proxy,                \* the proxy of the current iteration
    attempt,              \* retry counter of watchVideo
    success,              \* result of the last watchVideo call
    errorKind,            \* error of the last failed primary fetch
    isResponsive,         \* watchVideo's isResponsive (line 189)
    fetches,              \* axios.get calls of the video issued by the current
                          \* watchVideo call
    env,                  \* the world main() runs in: what the proxy source
                          \* returns and how each proxy answers
    lastFetched,          \* what the latest fetchProxies() call returned
    sessionsSinceFetch,   \* watchVideo calls that returned since the latest
                          \* fetchProxies() call
    failedSince,          \* watchVideo calls that returned false since the
                          \* latest call that returned true and the latest
                          \* fetchProxies() call
    pmProxies,            \* ProxyManager.proxies
    currentIndex,         \* ProxyManager.currentIndex
    proxyFailures,        \* ProxyManager.proxyFailures (an absent key reads 0)
    workingProxies,       \* ProxyManager.workingProxies
    lastCall,             \* the last ProxyManager call and what it returned
    nextRun,              \* <<position, proxy>> returned by each of the latest
                          \* getNextProxy calls entered with no proxy at the
                          \* threshold and no other call in between
    failStreak,           \* reportProxyFailure calls per proxy since its last
                          \* reportProxySuccess, reset or ingestion
    variant,              \* which watchVideo / watch is running
    minWatchDuration,     \* configured MIN_WATCH_DURATION / options.minDuration
    maxWatchDuration,     \* configured MAX_WATCH_DURATION / options.maxDuration
    watchDuration,        \* the duration drawn for the session, in seconds
    updateInterval,       \* seconds slept per iteration of the hold loop
    elapsed,              \* the loop variable i of the hold loop
    watchPc,              \* position of the watch phase
    second,               \* main() of the second script of part_000: its
                          \* position and its locals
    check                 \* one quickCheckProxy call: its timer, its request,
                          \* its promise and the proxy record it was given

mainVars == <<pc, outcome, viewCount, proxies, successfulViews, currentProxyIndex,
              triedProxies, consecutiveFailures, proxy, attempt, success, errorKind,
              isResponsive, fetches, env, lastFetched, sessionsSinceFetch,
              failedSince>>
pmVars == <<pmProxies, currentIndex, proxyFailures, workingProxies, lastCall,
            nextRun, failStreak>>
watchVars == <<variant, minWatchDuration, maxWatchDuration, watchDuration,
               updateInterval, elapsed, watchPc>>
secondVars == <<second>>
checkVars == <<check>>
vars == <<mainVars, pmVars, watchVars, secondVars, checkVars>>

loopVars == <<successfulViews, currentProxyIndex, triedProxies, consecutiveFailures>>
sessionVars == <<proxy, attempt, success, errorKind, isResponsive, fetches>>

(***************************************************************************)
(* ProxyManager, src/unnamed/part_002.  Proxies are strings                *)
(* "protocol://host:port"; the string is the key of proxyFailures and the  *)
(* member of workingProxies.                                               *)
(***************************************************************************)
PMProxyIds == {"http://a:1", "http://b:2"}

\* getNextProxy returning null
Null == "null"

\* line 365
maxFailures == 3

NoFailures == [p \in PMProxyIds |-> 0]

\* constructor(userProxies), lines 360-367
Constructed(userProxies) ==
    /\ pmProxies = userProxies
    /\ currentIndex = 0
    /\ proxyFailures = NoFailures
    /\ workingProxies = {}
    /\ lastCall = [op |-> "constructor", ret |-> Null, pos |-> 0 - 1,
                   probes |-> 0, reset |-> FALSE]
    /\ nextRun = <<>>
    /\ failStreak = NoFailures

\* the members of the pool
PoolSet == { pmProxies[i] : i \in 1..Len(pmProxies) }

\* lines 377-380 and 446-449: every pool member working, its counter 0
AllWorking(working) == working \cup PoolSet
AllCleared(failures) == [p \in PMProxyIds |-> IF p \in PoolSet THEN 0 ELSE failures[p]]

\* initialize(), lines 373-383
Initialize ==
    /\ workingProxies' = AllWorking(workingProxies)
    /\ proxyFailures' = AllCleared(proxyFailures)
    /\ failStreak' = AllCleared(failStreak)
    /\ lastCall' = [op |-> "initialize",
                    ret |-> IF Len(pmProxies) > 0 THEN "true" ELSE "false",
                    pos |-> 0 - 1, probes |-> 0, reset |-> FALSE]
    /\ nextRun' = <<>>
    /\ UNCHANGED <<pmProxies, currentIndex>>
    /\ UNCHANGED <<mainVars, watchVars, secondVars, checkVars>>

\* the threshold test with <= for <
BelowThreshold_Inclusive(failures) == failures <= maxFailures

\* line 435 (and 463): the proxy may still be handed out
BelowThreshold(failures) == failures < maxFailures

\* the cursor left where it is
Advance_Stuck(i) == i

\* line 432
Advance(i) == (i + 1) % Len(pmProxies)

\* lines 430-440: the probing loop, from cursor i after `attempts` probes
RECURSIVE ProbeLoop(_, _)
ProbeLoop(i, attempts) ==
    IF attempts < Len(pmProxies)
      THEN IF BelowThreshold(proxyFailures[pmProxies[i + 1]])
             THEN [found |-> TRUE, ret |-> pmProxies[i + 1], pos |-> i,
                   index |-> Advance(i), probes |-> attempts + 1]
             ELSE ProbeLoop(Advance(i), attempts + 1)
      ELSE [found |-> FALSE, ret |-> Null, pos |-> 0 - 1,
            index |-> i, probes |-> attempts]

\* no pool member has reached the failure threshold
NoneAtThreshold == \A p \in PoolSet : proxyFailures[p] < maxFailures

\* the latest entries of a run, at most as many as the pool is long
Latest(run) ==
    IF Len(run) <= Len(pmProxies) THEN run
    ELSE SubSeq(run, Len(run) - Len(pmProxies) + 1, Len(run))

\* getNextProxy(), lines 423-452
GetNextProxy ==
    /\ IF Len(pmProxies) = 0
         THEN /\ lastCall' = [op |-> "getNextProxy", ret |-> Null, pos |-> 0 - 1,
                              probes |-> 0, reset |-> FALSE]
              /\ nextRun' = <<>>
              /\ UNCHANGED <<currentIndex, proxyFailures, workingProxies, failStreak>>
         ELSE LET r == ProbeLoop(currentIndex, 0) IN
              /\ currentIndex' = r.index
              /\ IF r.found
                   THEN /\ lastCall' = [op |-> "getNextProxy", ret |-> r.ret,
                                        pos |-> r.pos, probes |-> r.probes,
                                        reset |-> FALSE]
                        /\ UNCHANGED <<proxyFailures, workingProxies, failStreak>>
                   ELSE \* lines 443-451: bulk reset, the first proxy is returned
                        /\ proxyFailures' = NoFailures
                        /\ workingProxies' = PoolSet
                        /\ failStreak' = NoFailures
                        /\ lastCall' = [op |-> "getNextProxy", ret |-> pmProxies[1],
                                        pos |-> 0, probes |-> r.probes,
                                        reset |-> TRUE]
              /\ nextRun' = IF NoneAtThreshold
                              THEN Latest(Append(nextRun, <<r.pos, r.ret>>))
                              ELSE <<>>
    /\ UNCHANGED pmProxies
    /\ UNCHANGED <<mainVars, watchVars, secondVars, checkVars>>

\* no proxy filtered out
Filter_None(list) == list

\* line 463: the pool members getRandomProxy may hand out
Filter(list) ==
    SelectSeq(list, LAMBDA p : BelowThreshold(proxyFailures[p]))

\* lines 474 and 477: Math.floor(Math.random() * list.length), any index
RandomIndices(list) == 0..(Len(list) - 1)

\* getRandomProxy(), lines 458-478
GetRandomProxy ==
    /\ IF Len(pmProxies) = 0
         THEN /\ lastCall' = [op |-> "getRandomProxy", ret |-> Null, pos |-> 0 - 1,
                              probes |-> 0, reset |-> FALSE]
              /\ UNCHANGED <<proxyFailures, workingProxies, failStreak>>
         ELSE LET working == Filter(pmProxies) IN
              IF Len(working) = 0
                THEN \* lines 466-474: bulk reset, then any pool member
                     /\ proxyFailures' = NoFailures
                     /\ workingProxies' = PoolSet
                     /\ failStreak' = NoFailures
                     /\ \E i \in RandomIndices(pmProxies) :
                          lastCall' = [op |-> "getRandomProxy",
                                       ret |-> pmProxies[i + 1], pos |-> i,
                                       probes |-> 0, reset |-> TRUE]
                ELSE /\ \E i \in RandomIndices(working) :
                          lastCall' = [op |-> "getRandomProxy",
                                       ret |-> working[i + 1], pos |-> i,
                                       probes |-> 0, reset |-> FALSE]
                     /\ UNCHANGED <<proxyFailures, workingProxies, failStreak>>
    /\ nextRun' = <<>>
    /\ UNCHANGED <<pmProxies, currentIndex>>
    /\ UNCHANGED <<mainVars, watchVars, secondVars, checkVars>>

\* the exclusion test with > for >=
AtThreshold_Strict(failures) == failures > maxFailures

\* line 488
AtThreshold(failures) == failures >= maxFailures

\* reportProxyFailure(proxy), lines 484-492
ReportProxyFailure(p) ==
    /\ proxyFailures[p] < MaxReportedFailures
    /\ LET failures == proxyFailures[p] + 1 IN
         /\ proxyFailures' = [proxyFailures EXCEPT ![p] = failures]
         /\ workingProxies' = IF AtThreshold(failures)
                                THEN workingProxies \ {p}
                                ELSE workingProxies
    /\ failStreak' = [failStreak EXCEPT ![p] = @ + 1]
    /\ lastCall' = [op |-> "reportProxyFailure", ret |-> p, pos |-> 0 - 1,
                    probes |-> 0, reset |-> FALSE]
    /\ nextRun' = <<>>
    /\ UNCHANGED <<pmProxies, currentIndex>>
    /\ UNCHANGED <<mainVars, watchVars, secondVars, checkVars>>

\* a success that clears every counter
ReportProxySuccess_ClearsAll(p) ==
    /\ workingProxies' = workingProxies \cup PoolSet \cup {p}
    /\ proxyFailures' = NoFailures
    /\ failStreak' = NoFailures
    /\ lastCall' = [op |-> "reportProxySuccess", ret |-> p, pos |-> 0 - 1,
                    probes |-> 0, reset |-> FALSE]
    /\ nextRun' = <<>>
    /\ UNCHANGED <<pmProxies, currentIndex>>
    /\ UNCHANGED <<mainVars, watchVars, secondVars, checkVars>>

\* reportProxySuccess(proxy), lines 498-501
ReportProxySuccess(p) ==
    /\ workingProxies' = workingProxies \cup {p}
    /\ proxyFailures' = [proxyFailures EXCEPT ![p] = 0]
    /\ failStreak' = [failStreak EXCEPT ![p] = 0]
    /\ lastCall' = [op |-> "reportProxySuccess", ret |-> p, pos |-> 0 - 1,
                    probes |-> 0, reset |-> FALSE]
    /\ nextRun' = <<>>
    /\ UNCHANGED <<pmProxies, currentIndex>>
    /\ UNCHANGED <<mainVars, watchVars, secondVars, checkVars>>

\* line 514
Includes(p) == p \in PoolSet

\* testAndAddProxy(proxy), lines 508-527; isWorking is testProxy's answer
TestAndAddProxy(p, isWorking) ==
    /\ IF isWorking /\ ~Includes(p)
         THEN /\ pmProxies' = Append(pmProxies, p)
              /\ workingProxies' = workingProxies \cup {p}
              /\ proxyFailures' = [proxyFailures EXCEPT ![p] = 0]
              /\ failStreak' = [failStreak EXCEPT ![p] = 0]
         ELSE UNCHANGED <<pmProxies, workingProxies, proxyFailures, failStreak>>
    /\ lastCall' = [op |-> "testAndAddProxy",
                    ret |-> IF isWorking THEN "true" ELSE "false",
                    pos |-> 0 - 1, probes |-> 0, reset |-> FALSE]
    /\ nextRun' = <<>>
    /\ UNCHANGED currentIndex
    /\ UNCHANGED <<mainVars, watchVars, secondVars, checkVars>>

\* line 400: at most this many candidates are tested
TEST_LIMIT == 20

\* line 408: testing stops once the pool holds this many proxies
ENOUGH_PROXIES == 10

\* what fetchProxiesFromAPI() of utils (lines 139-158) answers with: short
\* lists, and one list longer than TEST_LIMIT whose last candidate is the
\* only one of its kind
LongCandidates ==
    [n \in 1..(TEST_LIMIT + 1) |-> IF n <= TEST_LIMIT THEN "http://a:1" ELSE "http://b:2"]
CandidateLists == SeqUpTo(PMProxyIds, MaxCandidates) \cup {LongCandidates}

\* lines 399-400
ProxiesToTest(apiProxies) ==
    SubSeq(apiProxies, 1, IF Len(apiProxies) < TEST_LIMIT THEN Len(apiProxies) ELSE TEST_LIMIT)

\* lines 403-404: addedCount++ whenever testAndAddProxy returned true
CountAdded(ret, before, after) == IF ret THEN 1 ELSE 0

\* lines 402-412: the loop over proxiesToTest from its n-th entry, st being
\* the pool, the working set, the counters and addedCount so far; each
\* iteration is one testAndAddProxy call (lines 508-527), answers[p] being
\* what testProxy answers for p
RECURSIVE TestLoop(_, _, _, _)
TestLoop(st, toTest, n, answers) ==
    IF n > Len(toTest) THEN st
    ELSE LET p == toTest[n]
             isWorking == answers[p]
             adds == isWorking /\ ~(\E k \in 1..Len(st.proxies) : st.proxies[k] = p)
             after == IF adds THEN Append(st.proxies, p) ELSE st.proxies
             next == [proxies |-> after,
                      working |-> IF adds THEN st.working \cup {p} ELSE st.working,
                      failures |-> IF adds THEN [st.failures EXCEPT ![p] = 0]
                                   ELSE st.failures,
                      streak |-> IF adds THEN [st.streak EXCEPT ![p] = 0]
                                 ELSE st.streak,
                      added |-> st.added + CountAdded(isWorking, st.proxies, after),
                      tested |-> st.tested + 1]
         IN IF isWorking /\ Len(after) >= ENOUGH_PROXIES
              THEN next
              ELSE TestLoop(next, toTest, n + 1, answers)

\* fetchProxiesFromAPI(), lines 389-417; apiProxies is what the API answered
FetchProxiesFromAPI(apiProxies, answers) ==
    LET r == TestLoop([proxies |-> pmProxies, working |-> workingProxies,
                       failures |-> proxyFailures, streak |-> failStreak,
                       added |-> 0, tested |-> 0],
                      ProxiesToTest(apiProxies), 1, answers)
    IN /\ pmProxies' = r.proxies
       /\ workingProxies' = r.working
       /\ proxyFailures' = r.failures
       /\ failStreak' = r.streak
       /\ lastCall' = [op |-> "fetchProxiesFromAPI", ret |-> r.added, pos |-> 0 - 1,
                       probes |-> r.tested, reset |-> FALSE]
       /\ nextRun' = <<>>
       /\ UNCHANGED currentIndex
       /\ UNCHANGED <<mainVars, watchVars, secondVars, checkVars>>

\* getProxyCount(), lines 533-535
GetProxyCount == Len(pmProxies)

\* getWorkingProxyCount(), lines 541-543
GetWorkingProxyCount == Cardinality(workingProxies)


(***************************************************************************)
(* Proxy, src/unnamed/part_003: the class with the interface of            *)
(* ProxyManager and no failure bookkeeping.  Its fields proxies and        *)
(* currentIndex are held in pmProxies and currentIndex; the fields it does *)
(* not have keep the values given here.                                    *)
(***************************************************************************)
\* line 9
ExampleProxies == <<"http://example1.com:8080", "http://example2.com:8080">>

\* constructor(userProxies), lines 2-5
ProxyConstructed(userProxies) ==
    /\ pmProxies = userProxies
    /\ currentIndex = 0
    /\ proxyFailures = NoFailures
    /\ workingProxies = {}
    /\ lastCall = [op |-> "constructor", ret |-> Null, pos |-> 0 - 1,
                   probes |-> 0, reset |-> FALSE]
    /\ nextRun = <<>>
    /\ failStreak = NoFailures

\* initialize(), lines 7-12
ProxyInitialize ==
    /\ pmProxies' = IF Len(pmProxies) = 0 THEN ExampleProxies ELSE pmProxies
    /\ lastCall' = [op |-> "initialize", ret |-> "true", pos |-> 0 - 1,
                    probes |-> 0, reset |-> FALSE]
    /\ UNCHANGED <<currentIndex, proxyFailures, workingProxies, nextRun, failStreak>>
    /\ UNCHANGED <<mainVars, watchVars, secondVars, checkVars>>

\* getNextProxy(), lines 14-19
ProxyGetNextProxy ==
    /\ IF Len(pmProxies) = 0
         THEN /\ lastCall' = [op |-> "getNextProxy", ret |-> Null, pos |-> 0 - 1,
                              probes |-> 0, reset |-> FALSE]
              /\ UNCHANGED currentIndex
         ELSE /\ lastCall' = [op |-> "getNextProxy",
                              ret |-> pmProxies[currentIndex + 1],
                              pos |-> currentIndex, probes |-> 1, reset |-> FALSE]
              /\ currentIndex' = (currentIndex + 1) % Len(pmProxies)
    /\ UNCHANGED <<pmProxies, proxyFailures, workingProxies, nextRun, failStreak>>
    /\ UNCHANGED <<mainVars, watchVars, secondVars, checkVars>>

\* lines 23-24: what getRandomProxy may return from a non-empty list
ProxyRandomReturns(list) == { list[randomIndex + 1] : randomIndex \in RandomIndices(list) }

\* getRandomProxy(), lines 21-25
ProxyGetRandomProxy ==
    /\ IF Len(pmProxies) = 0
         THEN lastCall' = [op |-> "getRandomProxy", ret |-> Null, pos |-> 0 - 1,
                           probes |-> 0, reset |-> FALSE]
         ELSE \E r \in ProxyRandomReturns(pmProxies) :
                lastCall' = [op |-> "getRandomProxy", ret |-> r, pos |-> 0 - 1,
                             probes |-> 0, reset |-> FALSE]
    /\ UNCHANGED <<pmProxies, currentIndex, proxyFailures, workingProxies, nextRun,
                   failStreak>>
    /\ UNCHANGED <<mainVars, watchVars, secondVars, checkVars>>

\* getProxyCount(), lines 27-29, and getWorkingProxyCount(), lines 31-33
ProxyGetProxyCount == Len(pmProxies)
ProxyGetWorkingProxyCount == Len(pmProxies)

(***************************************************************************)
(* The watch phase of a session: the draw of the watch duration and the    *)
(* hold until it has elapsed.  Four pieces of code do it:                  *)
(*   "index"   watchVideo of src/index.js, lines 232-247                   *)
(*   "first"   watchVideo of the first script of part_000, lines 156-171   *)
(*   "second"  watchVideo of the second script of part_000, lines 607-621  *)
(*   "player"  VideoPlayer.watch of part_005, lines 68-75                  *)
(***************************************************************************)
Variants == {"index", "first", "second", "player"}

\* src/index.js lines 12-13
MIN_WATCH_DURATION == 30
MAX_WATCH_DURATION == 60

\* part_005 lines 6-7: the durations of a VideoPlayer given none
DEFAULT_MIN_DURATION == 1140
DEFAULT_MAX_DURATION == 1260

\* the durations that are configured: short ones, and the first ones for
\* which the first script's progress interval is a whole second
ConfiguredDurations == (0..MaxDuration) \cup {80, 81}

\* Math.random(): k stands for k / RandomResolution
Randoms == 0..(RandomResolution - 1)

\* options.x || dflt (part_005 lines 6-7): 0 and undefined are falsy
OrDefault(x, dflt) == IF x = 0 THEN dflt ELSE x

\* the minimum and maximum the running code draws between
MinDuration ==
    IF variant = "player" THEN OrDefault(minWatchDuration, DEFAULT_MIN_DURATION)
    ELSE minWatchDuration
MaxDuration_ ==
    IF variant = "player" THEN OrDefault(maxWatchDuration, DEFAULT_MAX_DURATION)
    ELSE maxWatchDuration

\* Math.floor(Math.random() * (max - min + 1)) + min: index.js line 232,
\* part_000 lines 156 and 607, getRandomInt of part_002 lines 291-295
\* (whose Math.ceil(min) and Math.floor(max) leave integers as they are)
RandomInt(k, min, max) ==
    ((k * (max - min + 1)) \div RandomResolution) + min

\* Math.max(1, n)
AtLeastOne(n) == IF n < 1 THEN 1 ELSE n

\* index.js line 233, part_000 lines 157 and 608
UpdateInterval(d) ==
    IF variant = "first" THEN d \div 80 ELSE AtLeastOne(d \div 10)

\* no watch phase is running
WatchIdle ==
    /\ variant = "index"
    /\ minWatchDuration = MIN_WATCH_DURATION
    /\ maxWatchDuration = MAX_WATCH_DURATION
    /\ watchDuration = 0
    /\ updateInterval = 0
    /\ elapsed = 0
    /\ watchPc = "idle"

\* index.js lines 232-233, part_000 lines 156-157 and 607-608, part_005
\* line 68
DrawDuration ==
    /\ watchPc = "draw"
    /\ \E k \in Randoms :
         LET d == RandomInt(k, MinDuration, MaxDuration_) IN
           /\ watchDuration' = d
           /\ updateInterval' = IF variant = "player" THEN d ELSE UpdateInterval(d)
    /\ elapsed' = 0
    /\ watchPc' = IF variant = "player" THEN "sleep" ELSE "hold"
    /\ UNCHANGED <<variant, minWatchDuration, maxWatchDuration>>
    /\ UNCHANGED <<mainVars, pmVars, secondVars, checkVars>>

\* one iteration of the hold loop: index.js lines 237-243, part_000 lines
\* 161-167 and 612-618
HoldSleep ==
    /\ watchPc = "hold"
    /\ elapsed < watchDuration
    /\ elapsed' = elapsed + updateInterval
    /\ UNCHANGED <<variant, minWatchDuration, maxWatchDuration, watchDuration,
                   updateInterval, watchPc>>
    /\ UNCHANGED <<mainVars, pmVars, secondVars, checkVars>>

\* the loop left and true returned: index.js lines 245-247, part_000 lines
\* 169-171 and 620-651
HoldDone ==
    /\ watchPc = "hold"
    /\ ~(elapsed < watchDuration)
    /\ watchPc' = "returned"
    /\ UNCHANGED <<variant, minWatchDuration, maxWatchDuration, watchDuration,
                   updateInterval, elapsed>>
    /\ UNCHANGED <<mainVars, pmVars, secondVars, checkVars>>

\* part_005 lines 70-75: one sleep of the whole duration, then
\* simulateInteractions, which catches what it throws
PlayerSleep ==
    /\ watchPc = "sleep"
    /\ elapsed' = watchDuration
    /\ watchPc' = "returned"
    /\ UNCHANGED <<variant, minWatchDuration, maxWatchDuration, watchDuration,
                   updateInterval>>
    /\ UNCHANGED <<mainVars, pmVars, secondVars, checkVars>>

(***************************************************************************)
(* The world main() runs in.  env.pools names the lists the proxy source   *)
(* returns; a proxy in env.good answers every request, one in              *)
(* env.reachable answers every probe of quickCheckProxy, one in            *)
(* env.silentProbe never answers the probe, one in env.silentFetch never   *)
(* answers the request for the video.                                      *)
(***************************************************************************)
\* the providers return anything, and every proxy may answer or not
AnyWorld ==
    [pools |-> "providers", good |-> {}, reachable |-> {}, silentProbe |-> {},
     silentFetch |-> {}]

\* host names of the proxies that never answer
SilentHosts ==
    <<"d1", "d2", "d3", "d4", "d5", "d6", "d7", "d8", "d9", "d10", "d11", "d12",
      "d13", "d14", "d15", "d16", "d17", "d18", "d19", "d20", "d21", "d22",
      "d23", "d24">>

\* the proxy that answers every request
GoodProxy == [protocol |-> "http", host |-> "good", port |-> 80]

\* the i-th proxy that never answers
SilentProxy(i) == [protocol |-> "http", host |-> SilentHosts[i], port |-> 80]

\* a list of len records with distinct identities, GoodProxy at position k
OneGoodList(len, k) ==
    [i \in 1..len |-> IF i = k THEN GoodProxy ELSE SilentProxy(i)]

\* the lengths of the lists of such a source: short ones, and the ones around
\* the consecutive-failure threshold
OneGoodLengths ==
    (1..MaxPool) \cup ((FAILURE_REFRESH_THRESHOLD - 1)..MaxLongPool)

\* every list of such a length with GoodProxy at any position
OneGoodLists ==
    { OneGoodList(lk[1], lk[2]) :
        lk \in { x \in OneGoodLengths \X (1..MaxLongPool) : x[2] <= x[1] } }

\* every list the source returns holds one proxy that always answers; of the
\* others, every second one never answers the probe and the rest never answer
\* the request for the video
OneGoodWorld ==
    [pools |-> "oneGood", good |-> {GoodProxy}, reachable |-> {},
     silentProbe |-> { SilentProxy(i) : i \in { j \in 1..MaxLongPool : j % 2 = 1 } },
     silentFetch |-> { SilentProxy(i) : i \in { j \in 1..MaxLongPool : j % 2 = 0 } }]

\* three proxies that answer every request
AllGoodList ==
    << [protocol |-> "http", host |-> "a1", port |-> 80],
       [protocol |-> "http", host |-> "a2", port |-> 80],
       [protocol |-> "http", host |-> "a3", port |-> 80] >>

\* the source returns the three of them, in that order
AllGoodWorld ==
    [pools |-> "allGood", good |-> { AllGoodList[i] : i \in 1..Len(AllGoodList) },
     reachable |-> {}, silentProbe |-> {}, silentFetch |-> {}]

\* a proxy that answers the probe and lets every request for the video time
\* out
TimeoutProxy == [protocol |-> "http", host |-> "t1", port |-> 80]

\* the source returns that proxy followed by the one that answers every
\* request
TimeoutThenGoodList == <<TimeoutProxy, GoodProxy>>

TimeoutThenGoodWorld ==
    [pools |-> "timeoutThenGood", good |-> {GoodProxy},
     reachable |-> {TimeoutProxy}, silentProbe |-> {},
     silentFetch |-> {TimeoutProxy}]

\* what one fetchProxies() call can return (lines 62-121)
SourceLists ==
    CASE env.pools = "providers" -> FetchProxies
      [] env.pools = "oneGood" -> OneGoodLists
      [] env.pools = "allGood" -> {AllGoodList}
      [] env.pools = "timeoutThenGood" -> {TimeoutThenGoodList}

(***************************************************************************)
(* main() of the second script, src/unnamed/part_000 lines 653-737         *)
(***************************************************************************)
\* CONFIG.MAX_PROXIES_TO_TRY of the second script
SECOND_MAX_PROXIES_TO_TRY == 100

\* the literal of line 681
SECOND_FAILURE_REFRESH_THRESHOLD == 20

\* main() of the second script as it starts, lines 653-661 and 673-677
SecondStarts ==
    second = [pc |-> "fetchInitial", outcome |-> "running", proxies |-> <<>>,
              successfulViews |-> 0, currentProxyIndex |-> 0, triedProxies |-> 0,
              consecutiveFailures |-> 0, proxy |-> NoProxy, success |-> FALSE]

\* lines 661-668: the initial fetch returns `fetched`
SecondFetchInitial(fetched) ==
    /\ second.pc = "fetchInitial"
    /\ second' = [second EXCEPT
         !.proxies = fetched,
         !.pc = IF Len(fetched) = 0 THEN "ended" ELSE "loopHead",
         !.outcome = IF Len(fetched) = 0 THEN "NoProxiesExit" ELSE @]

\* lines 679 and 681 (and 727-736 when the loop is left)
SecondLoopHead ==
    /\ second.pc = "loopHead"
    /\ second' =
         IF ~(second.successfulViews < viewCount)
           THEN [second EXCEPT !.pc = "ended", !.outcome = "Summary"]
           ELSE [second EXCEPT !.pc =
                   IF second.consecutiveFailures >= SECOND_FAILURE_REFRESH_THRESHOLD
                     THEN "refreshFailures" ELSE "readProxy"]

\* a refresh after failures that keeps the cursor where it is
SecondRefreshAfterFailures_KeepsCursor(fetched) ==
    /\ second.pc = "refreshFailures"
    /\ second' = [second EXCEPT
         !.proxies = fetched,
         !.triedProxies = 0,
         !.consecutiveFailures = 0,
         !.pc = "loopHead"]

\* lines 683-687: the refresh returns `fetched`, then `continue`
SecondRefreshAfterFailures(fetched) ==
    /\ second.pc = "refreshFailures"
    /\ second' = [second EXCEPT
         !.proxies = fetched,
         !.currentProxyIndex = 0,
         !.triedProxies = 0,
         !.consecutiveFailures = 0,
         !.pc = "loopHead"]

\* line 690: proxies[currentProxyIndex]
SecondReadProxy ==
    /\ second.pc = "readProxy"
    /\ second' = [second EXCEPT
         !.proxy = IF second.currentProxyIndex + 1 \in 1..Len(second.proxies)
                     THEN second.proxies[second.currentProxyIndex + 1]
                     ELSE Undefined,
         !.pc = "logAttempt"]

\* line 691 reads proxy.protocol: a TypeError when proxy is undefined, which
\* rejects main() and is caught at lines 740-742; line 693 calls watchVideo
SecondLogAttempt ==
    /\ second.pc = "logAttempt"
    /\ second' =
         IF second.proxy = Undefined
           THEN [second EXCEPT !.pc = "ended", !.outcome = "UncaughtTypeError"]
           ELSE [second EXCEPT !.pc = "watchVideo"]

\* line 693: the watchVideo call of the second script returns `result`
SecondWatchVideoReturns(result) ==
    /\ second.pc = "watchVideo"
    /\ second' = [second EXCEPT !.success = result, !.pc = "afterSession"]

\* lines 695-709
SecondAfterSession ==
    /\ second.pc = "afterSession"
    /\ second' = [second EXCEPT
         !.successfulViews = IF second.success THEN @ + 1 ELSE @,
         !.consecutiveFailures = IF second.success THEN 0 ELSE @ + 1,
         !.currentProxyIndex =
            IF Len(second.proxies) = 0 THEN NaN ELSE (@ + 1) % Len(second.proxies),
         !.triedProxies = @ + 1,
         !.pc = IF second.triedProxies + 1 >= SECOND_MAX_PROXIES_TO_TRY
                  THEN "refreshTried" ELSE "delayCheck"]

\* lines 711-715: the refresh returns `fetched`
SecondRefreshAfterTried(fetched) ==
    /\ second.pc = "refreshTried"
    /\ second' = [second EXCEPT
         !.proxies = fetched,
         !.currentProxyIndex = 0,
         !.triedProxies = 0,
         !.consecutiveFailures = 0,
         !.pc = "delayCheck"]

\* lines 718-725
SecondInterViewDelay ==
    /\ second.pc = "delayCheck"
    /\ second' = [second EXCEPT !.pc =
         IF second.successfulViews < viewCount THEN "delay" ELSE "loopHead"]

\* lines 720-724: the sleep loop
SecondDelayDone ==
    /\ second.pc = "delay"
    /\ second' = [second EXCEPT !.pc = "loopHead"]

(***************************************************************************)
(* fetchProxies() of the second script, src/unnamed/part_000 lines 362-473 *)
(***************************************************************************)
\* a port as a provider or the file gives it, a number or a string, with the
\* text a template string renders it as
SecondPorts == { [type |-> "number", shown |-> "80"], [type |-> "string", shown |-> "80"] }

SecondHosts == {"h1", "h2"}

\* the records of the working-proxies file: what earlier runs saved
PersistedRecords ==
    [protocol : {"http"}, host : SecondHosts, port : SecondPorts, working : {TRUE}]

\* entries of GeoNode's answer: protocol in any case, port as a string
GeoNodeEntries ==
    [protocol : {"http", "HTTP"}, ip : SecondHosts,
     port : { q \in SecondPorts : q.type = "string" }]

\* `host:port` matches of a text answer (ProxyScrape, free-proxy-list.net)
TextEntries == [host : SecondHosts, port : {"80"}]

\* what fetchProxies() finds: the file and the three providers' answers (an
\* empty answer for a request that failed)
SecondWorlds ==
    [pools : {"second"},
     file : SeqUpTo(PersistedRecords, MaxPersisted),
     geoNode : SeqUpTo(GeoNodeEntries, MaxProvided),
     proxyScrape : SeqUpTo(TextEntries, MaxProvided),
     freeProxyList : SeqUpTo(TextEntries, MaxProvided)]

\* String.prototype.toLowerCase on the protocols above
ToLowerCase(t) == IF t = "HTTP" THEN "http" ELSE t

\* parseInt on the port texts above
ParseInt(t) == [type |-> "number", shown |-> t]

\* lines 378-389: GeoNode's entries as records
GeoNodeRecords(entries) ==
    [i \in 1..Len(entries) |->
       [protocol |-> ToLowerCase(entries[i].protocol), host |-> entries[i].ip,
        port |-> entries[i].port, working |-> FALSE]]

\* lines 407-420 and 439-449: the matches of a text answer as records
TextRecords(protocol, entries) ==
    [i \in 1..Len(entries) |->
       [protocol |-> protocol, host |-> entries[i].host,
        port |-> ParseInt(entries[i].port), working |-> FALSE]]

\* allProxies at line 459: the file's records, then GeoNode's, ProxyScrape's
\* and free-proxy-list.net's
AllProxies(world) ==
    world.file \o GeoNodeRecords(world.geoNode)
      \o TextRecords("http", world.proxyScrape)
      \o TextRecords("http", world.freeProxyList)

\* line 464: `${proxy.protocol}://${proxy.host}:${proxy.port}`
SecondKey(p) == <<p.protocol, "://", p.host, ":", p.port.shown>>

\* the loop of lines 463-469 keeping the last record of a key
RECURSIVE RemoveDuplicates_KeepsLast(_)
RemoveDuplicates_KeepsLast(all) ==
    IF Len(all) = 0 THEN <<>>
    ELSE IF \E k \in 2..Len(all) : SecondKey(all[k]) = SecondKey(all[1])
           THEN RemoveDuplicates_KeepsLast(Tail(all))
           ELSE <<all[1]>> \o RemoveDuplicates_KeepsLast(Tail(all))

\* lines 459-469: uniqueProxies
RECURSIVE RemoveDuplicates(_)
RemoveDuplicates(all) ==
    IF Len(all) = 0 THEN <<>>
    ELSE LET before == RemoveDuplicates(SubSeq(all, 1, Len(all) - 1))
             next == all[Len(all)]
             seen == { SecondKey(before[k]) : k \in 1..Len(before) }
         IN  IF SecondKey(next) \notin seen THEN Append(before, next) ELSE before

\* lines 362-473: what fetchProxies() can return in a world
SecondFetchProxies(world) == Shuffles(RemoveDuplicates(AllProxies(world)))

(***************************************************************************)
(* quickCheckProxy(proxy), src/index.js lines 146-181 and                  *)
(* src/unnamed/part_000 lines 498-538, callback by callback                *)
(***************************************************************************)
Scripts == {"index", "second"}

\* no quickCheckProxy call is running
CheckIdle ==
    check = [script |-> "index", proxy |-> NoProxy, working |-> FALSE,
             lastChecked |-> 0, now |-> 0, timeoutId |-> "none",
             request |-> "none", resolved |-> "pending", first |-> "none"]

\* quickCheckProxy is about to be called with a proxy record
CheckCalled ==
    check \in [script : Scripts, proxy : ProxyRecords, working : BOOLEAN,
               lastChecked : {0}, now : {1}, timeoutId : {"none"},
               request : {"none"}, resolved : {"pending"}, first : {"none"}]

\* resolve(value): only the first call settles the promise
Resolve(value) == IF check.resolved = "pending" THEN value ELSE check.resolved

\* the callback that ran first
First(callback) == IF check.first = "none" THEN callback ELSE check.first

\* clearTimeout(timeoutId): a timer that has fired stays fired
ClearTimeout == IF check.timeoutId = "armed" THEN "cleared" ELSE check.timeoutId

\* the executor: lines 148-150 arm the timer; lines 153-158 give up without
\* an agent; lines 165-173 send the request
Executor ==
    /\ check.timeoutId = "none"
    /\ check.proxy # NoProxy
    /\ check' =
         IF GetProxyAgent(check.proxy) = "null"
           THEN [check EXCEPT !.timeoutId = "cleared", !.resolved = "false",
                              !.first = "noAgent"]
           ELSE [check EXCEPT !.timeoutId = "armed", !.request = "inFlight"]
    /\ UNCHANGED <<mainVars, pmVars, watchVars, secondVars>>

\* lines 148-150: the timer's callback
TimerFires ==
    /\ check.timeoutId = "armed"
    /\ check' = [check EXCEPT !.timeoutId = "fired", !.resolved = Resolve("false"),
                              !.first = First("timer")]
    /\ UNCHANGED <<mainVars, pmVars, watchVars, secondVars>>

\* part_000 lines 524-525 assign proxy.working and proxy.lastChecked; index.js
\* has no such lines
Marks(script) == script = "second"

\* the .then callback: index.js lines 166-169, part_000 lines 522-527
RequestAnswers ==
    /\ check.request = "inFlight"
    /\ check' = [check EXCEPT
         !.request = "answered",
         !.timeoutId = ClearTimeout,
         !.working = IF Marks(check.script) THEN TRUE ELSE @,
         !.lastChecked = IF Marks(check.script) THEN check.now ELSE @,
         !.resolved = Resolve("true"),
         !.first = First("answer")]
    /\ UNCHANGED <<mainVars, pmVars, watchVars, secondVars>>

\* the .catch callback: index.js lines 170-173, part_000 lines 528-531
RequestFails ==
    /\ check.request = "inFlight"
    /\ check' = [check EXCEPT
         !.request = "failed",
         !.timeoutId = ClearTimeout,
         !.resolved = Resolve("false"),
         !.first = First("failure")]
    /\ UNCHANGED <<mainVars, pmVars, watchVars, secondVars>>

\* time passes between callbacks (Date.now())
ClockTicks ==
    /\ check.timeoutId # "none"
    /\ check.now < MaxNow
    /\ check' = [check EXCEPT !.now = @ + 1]
    /\ UNCHANGED <<mainVars, pmVars, watchVars, secondVars>>

(***************************************************************************)
(* main(), src/index.js                                                    *)
(***************************************************************************)
MainInit ==
    /\ pc = "fetchInitial"
    /\ outcome = "running"
    /\ proxies = <<>>
    /\ successfulViews = 0
    /\ currentProxyIndex = 0
    /\ triedProxies = 0
    /\ consecutiveFailures = 0
    /\ proxy = NoProxy
    /\ attempt = 0
    /\ success = FALSE
    /\ errorKind = "none"
    /\ isResponsive = FALSE
    /\ fetches = 0
    /\ lastFetched = <<>>
    /\ sessionsSinceFetch = 0
    /\ failedSince = 0

\* main() as it starts
Init ==
    /\ MainInit
    /\ viewCount \in 1..MaxTarget
    /\ env = AnyWorld
    /\ Constructed(<<>>)
    /\ WatchIdle
    /\ SecondStarts
    /\ CheckIdle

\* lines 273-288: initial fetch, exit when nothing was fetched
FetchInitial ==
    /\ pc = "fetchInitial"
    /\ \E fetched \in SourceLists :
         /\ proxies' = fetched
         /\ lastFetched' = fetched
         /\ IF Len(fetched) = 0
              THEN pc' = "ended" /\ outcome' = "NoProxiesExit"
              ELSE pc' = "loopHead" /\ outcome' = outcome
    /\ sessionsSinceFetch' = 0
    /\ failedSince' = 0
    /\ UNCHANGED <<pmVars, watchVars, checkVars, env>>
    /\ UNCHANGED <<viewCount, loopVars, sessionVars>>

\* the while condition with <= for <
LoopContinues_Inclusive == successfulViews <= viewCount

\* the while condition of line 290
LoopContinues == successfulViews < viewCount

\* the refresh condition one failure early
TooManyFailures_Early == consecutiveFailures >= FAILURE_REFRESH_THRESHOLD - 1

\* the refresh condition one failure late
TooManyFailures_Late == consecutiveFailures > FAILURE_REFRESH_THRESHOLD

\* the refresh condition of line 292
TooManyFailures == consecutiveFailures >= FAILURE_REFRESH_THRESHOLD

\* line 290 (and 339-342 when the loop is left), line 292
LoopHead ==
    /\ pc = "loopHead"
    /\ IF ~LoopContinues
         THEN pc' = "ended" /\ outcome' = "Summary"
         ELSE /\ outcome' = outcome
              /\ pc' = IF TooManyFailures THEN "refreshFailures" ELSE "readProxy"
    /\ UNCHANGED <<pmVars, watchVars, checkVars, env>>
    /\ UNCHANGED <<viewCount, proxies, loopVars, sessionVars, lastFetched,
                   sessionsSinceFetch,
                   failedSince>>

\* a refresh that starts the count of views over
RefreshAfterFailures_ForgetsViews ==
    /\ pc = "refreshFailures"
    /\ \E fetched \in SourceLists : proxies' = fetched /\ lastFetched' = fetched
    /\ currentProxyIndex' = 0
    /\ triedProxies' = 0
    /\ consecutiveFailures' = 0
    /\ successfulViews' = 0
    /\ sessionsSinceFetch' = 0
    /\ failedSince' = 0
    /\ pc' = "loopHead"
    /\ UNCHANGED <<pmVars, watchVars, checkVars, env>>
    /\ UNCHANGED <<outcome, viewCount, sessionVars>>

\* lines 294-298: refresh after too many consecutive failures, then `continue`
RefreshAfterFailures ==
    /\ pc = "refreshFailures"
    /\ \E fetched \in SourceLists : proxies' = fetched /\ lastFetched' = fetched
    /\ currentProxyIndex' = 0
    /\ triedProxies' = 0
    /\ consecutiveFailures' = 0
    /\ sessionsSinceFetch' = 0
    /\ failedSince' = 0
    /\ pc' = "loopHead"
    /\ UNCHANGED <<pmVars, watchVars, checkVars, env>>
    /\ UNCHANGED <<outcome, viewCount, successfulViews, sessionVars>>

\* proxies[currentProxyIndex]
ProxyAt(i) == IF i + 1 \in 1..Len(proxies) THEN proxies[i + 1] ELSE Undefined

\* line 301
ReadProxy ==
    /\ pc = "readProxy"
    /\ proxy' = ProxyAt(currentProxyIndex)
    /\ pc' = "logAttempt"
    /\ UNCHANGED <<pmVars, watchVars, checkVars, env>>
    /\ UNCHANGED <<outcome, viewCount, proxies, loopVars, attempt, success,
                   errorKind, isResponsive, fetches, lastFetched,
                   sessionsSinceFetch,
                   failedSince>>

\* line 302 reads proxy.protocol: a TypeError when proxy is undefined, which
\* rejects main() and is caught at lines 346-348; line 304 calls watchVideo,
\* whose locals start afresh
LogAttempt ==
    /\ pc = "logAttempt"
    /\ IF proxy = Undefined
         THEN pc' = "ended" /\ outcome' = "UncaughtTypeError"
         ELSE pc' = "quickCheck" /\ outcome' = outcome
    /\ attempt' = 0
    /\ isResponsive' = FALSE
    /\ fetches' = 0
    /\ UNCHANGED <<pmVars, watchVars, checkVars, env>>
    /\ UNCHANGED <<viewCount, proxies, loopVars, proxy, success, errorKind,
                   lastFetched, sessionsSinceFetch,
                   failedSince>>

(***************************************************************************)
(* watchVideo(url, proxy), src/index.js                                    *)
(***************************************************************************)
\* what the probe of quickCheckProxy can do: answer, fail, or not settle
\* before the timer fires
ProbeOutcomes == {"response", "error", "timeout"}

\* what the probe through proxy p can do
ProbeOutcomesOf(p) ==
    IF p \in env.good \cup env.reachable THEN {"response"}
    ELSE IF p \in env.silentProbe THEN {"timeout"}
    ELSE ProbeOutcomes

\* quickCheckProxy without the timer of lines 148-150: a probe that does not
\* settle leaves the promise pending
QuickCheckSettles_NoTimer(probe) == probe # "timeout"

\* quickCheckProxy's promise is resolved by the probe's callbacks or by the
\* timer of lines 148-150, whichever runs first
QuickCheckSettles(probe) == probe \in {"response", "error", "timeout"}

\* quickCheckProxy(proxy), lines 146-181
QuickCheckProxy(p, probe) ==
    IF GetProxyAgent(p) = "null" THEN FALSE ELSE probe = "response"

\* the checks of lines 190 and 196 without the first
SessionProceeds_Unchecked(responsive, agent) == agent # "null"

\* lines 190 and 196: the session goes on to the video
SessionProceeds(responsive, agent) == responsive /\ agent # "null"

\* watchVideo lets the error out instead of catching it
ReturnFalse_Rethrown ==
    /\ pc' = "ended"
    /\ success' = FALSE
    /\ outcome' = "UncaughtSessionError"
    /\ sessionsSinceFetch' = sessionsSinceFetch + 1
    /\ failedSince' = failedSince + 1

\* watchVideo returns false: lines 191-192, 197-198 and the catch block of
\* lines 248-262
ReturnFalse ==
    /\ pc' = "afterSession"
    /\ success' = FALSE
    /\ outcome' = outcome
    /\ sessionsSinceFetch' = sessionsSinceFetch + 1
    /\ failedSince' = failedSince + 1

\* lines 189-199
QuickCheck ==
    /\ pc = "quickCheck"
    /\ \E probe \in ProbeOutcomesOf(proxy) :
         /\ QuickCheckSettles(probe)
         /\ isResponsive' = QuickCheckProxy(proxy, probe)
         /\ IF SessionProceeds(isResponsive', GetProxyAgent(proxy))
              THEN pc' = "fetch" /\ UNCHANGED <<success, outcome, sessionsSinceFetch,
                                                      failedSince>>
              ELSE ReturnFalse
    /\ errorKind' = "none"
    /\ UNCHANGED <<pmVars, watchVars, checkVars, env>>
    /\ UNCHANGED <<viewCount, proxies, loopVars, proxy, attempt, fetches,
                   lastFetched>>

\* what axios.get of the video can do: a response, a network error (among
\* them the timeout of line 201), any other error
FetchOutcomes == {"ok", "network", "other"}

\* what the request through proxy p can do
FetchOutcomesOf(p) ==
    IF p \in env.good THEN {"ok"}
    ELSE IF p \in env.silentFetch THEN {"network"}
    ELSE FetchOutcomes

\* the test of line 223 one attempt later
LastAttempt_OneMore(a) == a = MAX_RETRIES

\* line 223: the error of the last attempt is rethrown
LastAttempt(a) == a = MAX_RETRIES - 1

\* lines 218-226: one attempt of the primary fetch
PrimaryFetch ==
    /\ pc = "fetch"
    /\ fetches' = fetches + 1
    /\ \E r \in FetchOutcomesOf(proxy) :
         IF r = "ok"
           THEN /\ pc' = "hold"
                /\ UNCHANGED <<success, errorKind, outcome, sessionsSinceFetch,
                               failedSince>>
           ELSE /\ errorKind' = r
                /\ IF LastAttempt(attempt)
                     THEN ReturnFalse
                     ELSE /\ pc' = "retrySleep"
                          /\ UNCHANGED <<success, outcome, sessionsSinceFetch,
                                                      failedSince>>
    /\ UNCHANGED <<pmVars, watchVars, checkVars, env>>
    /\ UNCHANGED <<viewCount, proxies, loopVars, proxy, attempt, isResponsive,
                   lastFetched>>

\* a retry that starts the session over
RetrySleep_Restarts ==
    /\ pc = "retrySleep"
    /\ attempt' = attempt + 1
    /\ pc' = "quickCheck"
    /\ UNCHANGED <<pmVars, watchVars, checkVars, env>>
    /\ UNCHANGED <<outcome, viewCount, proxies, loopVars, proxy, success,
                   errorKind, isResponsive, fetches, lastFetched,
                   sessionsSinceFetch,
                   failedSince>>

\* line 224, then attempt++ of line 218
RetrySleep ==
    /\ pc = "retrySleep"
    /\ attempt' = attempt + 1
    /\ pc' = "fetch"
    /\ UNCHANGED <<pmVars, watchVars, checkVars, env>>
    /\ UNCHANGED <<outcome, viewCount, proxies, loopVars, proxy, success,
                   errorKind, isResponsive, fetches, lastFetched,
                   sessionsSinceFetch,
                   failedSince>>

\* lines 232-247: the hold for the watch duration, return true
Hold ==
    /\ pc = "hold"
    /\ success' = TRUE
    /\ sessionsSinceFetch' = sessionsSinceFetch + 1
    /\ failedSince' = 0
    /\ pc' = "afterSession"
    /\ UNCHANGED <<pmVars, watchVars, checkVars, env>>
    /\ UNCHANGED <<outcome, viewCount, proxies, loopVars, proxy, attempt,
                   errorKind, isResponsive, fetches, lastFetched>>

(***************************************************************************)
(* main(), after the session                                               *)
(***************************************************************************)
\* the test of line 320 with > for >=
TriedTooMany_Late(t) == t > MAX_PROXIES_TO_TRY

\* line 320
TriedTooMany(t) == t >= MAX_PROXIES_TO_TRY

\* line 316 without the increment
NextIndex_Stuck(i) == IF Len(proxies) = 0 THEN NaN ELSE i % Len(proxies)

\* line 316; x % 0 is NaN in JavaScript
NextIndex(i) == IF Len(proxies) = 0 THEN NaN ELSE (i + 1) % Len(proxies)

\* lines 306-320 with one failure counted per request that failed
AfterSession_CountsRequests ==
    /\ pc = "afterSession"
    /\ IF success
         THEN /\ successfulViews' = successfulViews + 1
              /\ consecutiveFailures' = 0
         ELSE /\ successfulViews' = successfulViews
              /\ consecutiveFailures' = consecutiveFailures + fetches
    /\ currentProxyIndex' = NextIndex(currentProxyIndex)
    /\ triedProxies' = triedProxies + 1
    /\ pc' = IF TriedTooMany(triedProxies') THEN "refreshTried" ELSE "delayCheck"
    /\ UNCHANGED <<pmVars, watchVars, checkVars, env>>
    /\ UNCHANGED <<outcome, viewCount, proxies, sessionVars, lastFetched,
                   sessionsSinceFetch,
                   failedSince>>

\* a success that leaves consecutiveFailures as it is
AfterSession_SuccessKeepsFailures ==
    /\ pc = "afterSession"
    /\ IF success
         THEN /\ successfulViews' = successfulViews + 1
              /\ consecutiveFailures' = consecutiveFailures
         ELSE /\ successfulViews' = successfulViews
              /\ consecutiveFailures' = consecutiveFailures + 1
    /\ currentProxyIndex' = NextIndex(currentProxyIndex)
    /\ triedProxies' = triedProxies + 1
    /\ pc' = IF TriedTooMany(triedProxies') THEN "refreshTried" ELSE "delayCheck"
    /\ UNCHANGED <<pmVars, watchVars, checkVars, env>>
    /\ UNCHANGED <<outcome, viewCount, proxies, sessionVars, lastFetched,
                   sessionsSinceFetch,
                   failedSince>>

\* lines 306-320
AfterSession ==
    /\ pc = "afterSession"
    /\ IF success
         THEN /\ successfulViews' = successfulViews + 1
              /\ consecutiveFailures' = 0
         ELSE /\ successfulViews' = successfulViews
              /\ consecutiveFailures' = consecutiveFailures + 1
    /\ currentProxyIndex' = NextIndex(currentProxyIndex)
    /\ triedProxies' = triedProxies + 1
    /\ pc' = IF TriedTooMany(triedProxies') THEN "refreshTried" ELSE "delayCheck"
    /\ UNCHANGED <<pmVars, watchVars, checkVars, env>>
    /\ UNCHANGED <<outcome, viewCount, proxies, sessionVars, lastFetched,
                   sessionsSinceFetch,
                   failedSince>>

\* the refresh of lines 322-325 without line 325
RefreshAfterTried_KeepsFailures ==
    /\ pc = "refreshTried"
    /\ \E fetched \in SourceLists : proxies' = fetched /\ lastFetched' = fetched
    /\ currentProxyIndex' = 0
    /\ triedProxies' = 0
    /\ sessionsSinceFetch' = 0
    /\ failedSince' = 0
    /\ pc' = "delayCheck"
    /\ UNCHANGED <<pmVars, watchVars, checkVars, env>>
    /\ UNCHANGED <<outcome, viewCount, successfulViews, consecutiveFailures,
                   sessionVars>>

\* lines 322-325
RefreshAfterTried ==
    /\ pc = "refreshTried"
    /\ \E fetched \in SourceLists : proxies' = fetched /\ lastFetched' = fetched
    /\ currentProxyIndex' = 0
    /\ triedProxies' = 0
    /\ consecutiveFailures' = 0
    /\ sessionsSinceFetch' = 0
    /\ failedSince' = 0
    /\ pc' = "delayCheck"
    /\ UNCHANGED <<pmVars, watchVars, checkVars, env>>
    /\ UNCHANGED <<outcome, viewCount, successfulViews, sessionVars>>

\* the test of line 329 with <= for <
DelayWanted_Inclusive == successfulViews <= viewCount

\* line 329
DelayWanted == successfulViews < viewCount

\* lines 329-336
InterViewDelay ==
    /\ pc = "delayCheck"
    /\ pc' = IF DelayWanted THEN "delay" ELSE "loopHead"
    /\ UNCHANGED <<pmVars, watchVars, checkVars, env>>
    /\ UNCHANGED <<outcome, viewCount, proxies, loopVars, sessionVars,
                   lastFetched, sessionsSinceFetch,
                   failedSince>>

\* lines 331-335: the sleep loop
DelayDone ==
    /\ pc = "delay"
    /\ pc' = "loopHead"
    /\ UNCHANGED <<pmVars, watchVars, checkVars, env>>
    /\ UNCHANGED <<outcome, viewCount, proxies, loopVars, sessionVars,
                   lastFetched, sessionsSinceFetch,
                   failedSince>>

Next ==
    \/ FetchInitial /\ UNCHANGED secondVars
    \/ LoopHead /\ UNCHANGED secondVars
    \/ RefreshAfterFailures /\ UNCHANGED secondVars
    \/ ReadProxy /\ UNCHANGED secondVars
    \/ LogAttempt /\ UNCHANGED secondVars
    \/ QuickCheck /\ UNCHANGED secondVars
    \/ PrimaryFetch /\ UNCHANGED secondVars
    \/ RetrySleep /\ UNCHANGED secondVars
    \/ Hold /\ UNCHANGED secondVars
    \/ AfterSession /\ UNCHANGED secondVars
    \/ RefreshAfterTried /\ UNCHANGED secondVars
    \/ InterViewDelay /\ UNCHANGED secondVars
    \/ DelayDone /\ UNCHANGED secondVars

Spec == Init /\ [][Next]_vars

\* index.js and the second script of part_000 run side by side on the same
\* inputs: the same requested count, every fetchProxies() call of the one
\* returns what the call of the other returns, and every watchVideo call of
\* the one returns what the call of the other returns
SecondSessionFollows ==
    IF pc' = "afterSession" THEN SecondWatchVideoReturns(success')
    ELSE UNCHANGED secondVars

NextBoth ==
    \/ FetchInitial /\ SecondFetchInitial(proxies')
    \/ LoopHead /\ SecondLoopHead
    \/ RefreshAfterFailures /\ SecondRefreshAfterFailures(proxies')
    \/ ReadProxy /\ SecondReadProxy
    \/ LogAttempt /\ SecondLogAttempt
    \/ QuickCheck /\ SecondSessionFollows
    \/ PrimaryFetch /\ SecondSessionFollows
    \/ RetrySleep /\ UNCHANGED secondVars
    \/ Hold /\ SecondSessionFollows
    \/ AfterSession /\ SecondAfterSession
    \/ RefreshAfterTried /\ SecondRefreshAfterTried(proxies')
    \/ InterViewDelay /\ SecondInterViewDelay
    \/ DelayDone /\ SecondDelayDone

SpecBoth == Init /\ [][NextBoth]_vars

\* main() of the second script up to its first fetchProxies() call
InitSecond ==
    /\ MainInit
    /\ viewCount = 1
    /\ env \in SecondWorlds
    /\ Constructed(<<>>)
    /\ WatchIdle
    /\ SecondStarts
    /\ CheckIdle

NextSecond ==
    \E fetched \in SecondFetchProxies(env) :
        /\ SecondFetchInitial(fetched)
        /\ UNCHANGED <<mainVars, pmVars, watchVars, checkVars>>

SpecSecond == InitSecond /\ [][NextSecond]_vars

\* one quickCheckProxy call of either script
InitCheck ==
    /\ MainInit
    /\ viewCount = 1
    /\ env = AnyWorld
    /\ Constructed(<<>>)
    /\ WatchIdle
    /\ SecondStarts
    /\ CheckCalled

NextCheck ==
    \/ Executor
    \/ TimerFires
    \/ RequestAnswers
    \/ RequestFails
    \/ ClockTicks

SpecCheck == InitCheck /\ [][NextCheck]_vars

\* a ProxyManager as its caller gets it from the constructor
InitPM ==
    /\ MainInit
    /\ viewCount = 1
    /\ env = AnyWorld
    /\ \E userProxies \in SeqUpTo(PMProxyIds, MaxUserProxies) :
         Constructed(userProxies)
    /\ WatchIdle
    /\ SecondStarts
    /\ CheckIdle

NextPM ==
    \/ Initialize
    \/ GetNextProxy
    \/ GetRandomProxy
    \/ \E p \in PMProxyIds : ReportProxyFailure(p)
    \/ \E p \in PMProxyIds : ReportProxySuccess(p)
    \/ \E p \in PMProxyIds, isWorking \in BOOLEAN : TestAndAddProxy(p, isWorking)

SpecPM == InitPM /\ [][NextPM]_vars

\* the ProxyManager taking proxies in: initialize, testAndAddProxy and
\* fetchProxiesFromAPI
NextAPI ==
    \/ Initialize
    \/ \E p \in PMProxyIds, isWorking \in BOOLEAN : TestAndAddProxy(p, isWorking)
    \/ \E apiProxies \in CandidateLists, answers \in [PMProxyIds -> BOOLEAN] :
         FetchProxiesFromAPI(apiProxies, answers)

SpecAPI == InitPM /\ [][NextAPI]_vars

\* a Proxy as its caller gets it from the constructor
InitProxy ==
    /\ MainInit
    /\ viewCount = 1
    /\ env = AnyWorld
    /\ \E userProxies \in SeqUpTo(PMProxyIds, MaxSimpleProxies) :
         ProxyConstructed(userProxies)
    /\ WatchIdle
    /\ SecondStarts
    /\ CheckIdle

NextProxy ==
    \/ ProxyInitialize
    \/ ProxyGetNextProxy
    \/ ProxyGetRandomProxy

SpecProxy == InitProxy /\ [][NextProxy]_vars

\* a session whose request for the video has just been answered
InitWatch ==
    /\ MainInit
    /\ viewCount = 1
    /\ env = AnyWorld
    /\ Constructed(<<>>)
    /\ variant \in Variants
    /\ minWatchDuration \in ConfiguredDurations
    /\ maxWatchDuration \in ConfiguredDurations
    /\ minWatchDuration <= maxWatchDuration
    /\ watchDuration = 0
    /\ updateInterval = 0
    /\ elapsed = 0
    /\ watchPc = "draw"
    /\ SecondStarts
    /\ CheckIdle

NextWatch ==
    \/ DrawDuration
    \/ HoldSleep
    \/ HoldDone
    \/ PlayerSleep

\* the event loop resumes the function whenever the timer it awaits fires
SpecWatch == InitWatch /\ [][NextWatch]_vars /\ WF_vars(NextWatch)

(***************************************************************************)
(* main() against a source whose every list holds a proxy that always      *)
(* answers, and where every proxy behaves the same way in each of its      *)
(* sessions.  main() is one async function: the event loop resumes it      *)
(* whenever the promise it awaits settles.                                 *)
(***************************************************************************)
InitOneGood ==
    /\ MainInit
    /\ \/ env = OneGoodWorld /\ viewCount \in {1, MaxTarget}
       \/ env \in {AllGoodWorld, TimeoutThenGoodWorld} /\ viewCount \in 1..MaxTarget
    /\ Constructed(<<>>)
    /\ WatchIdle
    /\ SecondStarts
    /\ CheckIdle

SpecOneGood == InitOneGood /\ [][Next]_vars /\ WF_vars(Next)

(***************************************************************************)
(* One watchVideo call, on any proxy, in any world where some proxies      *)
(* never answer the probe and some never answer the request for the video. *)
(***************************************************************************)
\* the worlds of one call
SilentWorlds ==
    { [pools |-> "providers", good |-> {}, reachable |-> {}, silentProbe |-> sp,
       silentFetch |-> sf] :
        sp \in SUBSET ProxyRecords, sf \in SUBSET ProxyRecords }

\* main() in its first iteration, about to call watchVideo (line 304)
InitSession ==
    /\ \E p \in ProxyRecords :
         /\ proxies = <<p>>
         /\ lastFetched = <<p>>
         /\ proxy = p
    /\ pc = "logAttempt"
    /\ outcome = "running"
    /\ viewCount = 1
    /\ successfulViews = 0
    /\ currentProxyIndex = 0
    /\ triedProxies = 0
    /\ consecutiveFailures = 0
    /\ attempt = 0
    /\ success = FALSE
    /\ errorKind = "none"
    /\ isResponsive = FALSE
    /\ fetches = 0
    /\ sessionsSinceFetch = 0
    /\ failedSince = 0
    /\ env \in SilentWorlds
    /\ Constructed(<<>>)
    /\ WatchIdle
    /\ SecondStarts
    /\ CheckIdle

NextSession ==
    \/ LogAttempt /\ UNCHANGED secondVars
    \/ QuickCheck /\ UNCHANGED secondVars
    \/ PrimaryFetch /\ UNCHANGED secondVars
    \/ RetrySleep /\ UNCHANGED secondVars
    \/ Hold /\ UNCHANGED secondVars

SpecSession == InitSession /\ [][NextSession]_vars /\ WF_vars(NextSession)

(***************************************************************************)
(* Claims                                                                  *)
(***************************************************************************)

\* C1: successfulViews stays within 0..viewCount in every state of the
\* orchestrator loop; a step changes it only by +1, and only the step that
\* handles a session that returned success; and a session (the call of
\* watchVideo) is started only while successfulViews < viewCount.
C1_SuccessfulViewsBoundedMonotone ==
    /\ [](successfulViews \in 0..viewCount)
    /\ [][ \/ successfulViews' = successfulViews
           \/ /\ successfulViews' = successfulViews + 1
              /\ pc = "afterSession"
              /\ success ]_vars
    /\ [][ (pc # "quickCheck" /\ pc' = "quickCheck")
             => successfulViews < viewCount ]_vars

\* C1 witness: the session that produced the last required view has just been
\* counted, after an earlier view.
C1_Witness ==
    /\ pc = "delayCheck"
    /\ success
    /\ successfulViews = viewCount
    /\ viewCount > 1

\* C2: when no pool member has reached the failure threshold, N = pool length
\* consecutive getNextProxy calls with no other call in between return the
\* pool entry at every position 0..N-1 exactly once, each call returning the
\* proxy stored at its position.
C2_RoundRobinComplete ==
    (Len(pmProxies) >= 1 /\ Len(nextRun) = Len(pmProxies)) =>
        /\ { nextRun[k][1] : k \in 1..Len(nextRun) } = 0..(Len(pmProxies) - 1)
        /\ \A k \in 1..Len(nextRun) : nextRun[k][2] = pmProxies[nextRun[k][1] + 1]

\* C2 witness: a run of N = 2 calls on a pool of two different proxies that
\* started with the cursor at position 1.
C2_Witness ==
    /\ Len(pmProxies) = 2
    /\ pmProxies[1] # pmProxies[2]
    /\ Len(nextRun) = 2
    /\ nextRun[1][1] = 1

\* C3: a proxy returned by getNextProxy has, at the moment it is returned, a
\* failure counter strictly below maxFailures.
C3_ReturnedBelowThreshold ==
    (lastCall.op = "getNextProxy" /\ lastCall.ret # Null) =>
        proxyFailures[lastCall.ret] < maxFailures

\* C3 witness: getNextProxy skipped a proxy at the threshold and returned
\* another one without a bulk reset.
C3_Witness ==
    /\ lastCall.op = "getNextProxy"
    /\ lastCall.ret # Null
    /\ ~lastCall.reset
    /\ lastCall.probes > 1
    /\ \E p \in PoolSet : proxyFailures[p] >= maxFailures

\* C4: a proxy on which reportProxyFailure was called maxFailures times or
\* more since its last reportProxySuccess, bulk reset, initialize or
\* ingestion is not in the working set that getWorkingProxyCount counts.
C4_ExcludedAfterMaxFailures ==
    \A p \in PMProxyIds :
        failStreak[p] >= maxFailures => p \notin workingProxies

\* C4 witness: a pool member that failed more than maxFailures times is still
\* excluded after a further getNextProxy call that did no bulk reset.
C4_Witness ==
    /\ lastCall.op = "getNextProxy"
    /\ ~lastCall.reset
    /\ lastCall.ret # Null
    /\ \E p \in PoolSet :
         /\ failStreak[p] > maxFailures
         /\ p \notin workingProxies

\* C5: a getNextProxy call that finds every pool member at or above
\* maxFailures examines at most N = pool length proxies, leaves every counter
\* at 0 and getWorkingProxyCount() equal to getProxyCount(), and returns a
\* proxy of the pool.
C5_BulkResetRestoresAll ==
    (lastCall.op = "getNextProxy" /\ lastCall.reset) =>
        /\ lastCall.probes <= Len(pmProxies)
        /\ \A p \in PoolSet : proxyFailures[p] = 0
        /\ GetWorkingProxyCount = GetProxyCount
        /\ lastCall.ret \in PoolSet

\* C6: when the proxy selection of the loop finds the list empty after a
\* refresh, the run ends with the no-proxies condition (the one the initial
\* fetch ends with), not with a record, a session or another failure.
C6_EmptyRefreshIsNoProxyAvailable ==
    (pc = "ended" /\ proxy = Undefined) => outcome = "NoProxiesExit"

\* C7: proxies[currentProxyIndex] is read only when the list is non-empty.
C7_PoolReadOnlyWhenNonEmpty ==
    pc = "logAttempt" => Len(proxies) > 0

\* C8: whenever the pool is about to be read, the cursor is an index of the
\* list: 0 <= currentProxyIndex < proxies.length, and for the ProxyManager
\* 0 <= currentIndex < proxies.length whenever its pool is non-empty.
C8_CursorInRange ==
    /\ pc = "readProxy" => currentProxyIndex \in 0..(Len(proxies) - 1)
    /\ Len(pmProxies) > 0 => currentIndex \in 0..(Len(pmProxies) - 1)

\* C9: no two records of a pool have the same identity
\* (protocol, host, port).
C9_NoDuplicateIdentities ==
    /\ \A i, j \in 1..Len(proxies) :
         i # j => Key(proxies[i]) # Key(proxies[j])
    /\ \A i, j \in 1..Len(pmProxies) :
         i # j => pmProxies[i] # pmProxies[j]

\* C10: a run whose proxy list became empty by a refresh before the target
\* was reached ends by reporting the achieved view count (the summary), a
\* give-up state of its own.
C10_EmptySourceGivesUpWithReport ==
    (pc = "ended" /\ Len(proxies) = 0 /\ successfulViews < viewCount
        /\ outcome # "NoProxiesExit") => outcome = "Summary"

\* C11: main() keeps taking steps (SpecOneGood).  When the first proxy list
\* and every refreshed one is non-empty and holds, among its first
\* FAILURE_REFRESH_THRESHOLD (20) records, a proxy whose sessions always
\* succeed, the loop eventually ends with successfulViews = viewCount,
\* whatever the length of the lists and wherever among those first records the
\* proxy stands.
C11_ProgressWhenGoodProxyWithinThreshold ==
    [](pc # "fetchInitial" =>
         \E i \in 1..Len(lastFetched) :
             i <= FAILURE_REFRESH_THRESHOLD /\ lastFetched[i] \in env.good)
      => <>(pc = "ended" /\ outcome = "Summary" /\ successfulViews = viewCount)

\* C11 witness: the target of several views is reached on a list longer than
\* the failure threshold whose always-succeeding proxy is its 20th record.
C11_Witness ==
    /\ pc = "ended"
    /\ outcome = "Summary"
    /\ successfulViews = viewCount
    /\ viewCount > 1
    /\ Len(proxies) > FAILURE_REFRESH_THRESHOLD
    /\ proxies[FAILURE_REFRESH_THRESHOLD] \in env.good

\* C11 as stated: when the first proxy list and every refreshed one is
\* non-empty and holds a proxy whose sessions always succeed (as every list of
\* SpecOneGood does), the loop eventually ends with
\* successfulViews = viewCount, for every list length and every position of
\* that proxy.
C11_ProgressWhenGoodProxyAnywhere ==
    <>(pc = "ended" /\ outcome = "Summary" /\ successfulViews = viewCount)

\* C12: the loop head answers a consecutive-failure count at the configured
\* threshold with a refresh that consumes no proxy, so that with the
\* threshold set to 3 and proxies that all fail permanently no session is
\* started after the 3rd consecutive failure until the list was refreshed: a
\* session starts only with fewer than 3 consecutive failures counted, and
\* the step taken at the loop head with 3 or more counted goes to the
\* refresh and leaves the cursor and the counters alone.
C12_RefreshAfterThirdFailure ==
    /\ [](pc = "quickCheck" => consecutiveFailures < 3)
    /\ [][ (pc = "loopHead" /\ successfulViews < viewCount
              /\ consecutiveFailures >= 3)
             => (pc' = "refreshFailures" /\ UNCHANGED <<loopVars, proxy>>) ]_vars

\* C13: triedProxies grows by exactly one in the step that handles a returned
\* session, successful or not, and in no other step; it equals the number of
\* sessions that returned since the latest fetch; the step that brings it to
\* MAX_PROXIES_TO_TRY goes to the refresh at once, whatever
\* consecutiveFailures is, and that refresh is a fetch; so at most
\* MAX_PROXIES_TO_TRY sessions return between two fetches.
C13_RefreshAfterMaxProxiesTried ==
    /\ [](sessionsSinceFetch <= MAX_PROXIES_TO_TRY)
    /\ [](pc \notin {"afterSession", "ended"} => triedProxies = sessionsSinceFetch)
    /\ [][ pc = "afterSession" =>
             /\ triedProxies' = triedProxies + 1
             /\ (triedProxies' >= MAX_PROXIES_TO_TRY <=> pc' = "refreshTried") ]_vars
    /\ [][ triedProxies' > triedProxies => pc = "afterSession" ]_vars
    /\ [][ pc = "refreshTried" =>
             (pc' = "delayCheck" /\ sessionsSinceFetch' = 0 /\ triedProxies' = 0) ]_vars

\* C13 witness: the refresh after the 100th session since the last fetch has
\* just been done; that session failed, and some session before it succeeded.
C13_Witness ==
    /\ pc = "delayCheck"
    /\ sessionsSinceFetch = 0
    /\ ~success
    /\ successfulViews > 0

\* C14: the step that refreshes, after too many consecutive failures or after
\* too many proxies tried, leaves the list equal to what that fetch returned
\* (nothing of the old list is kept), the cursor at 0, and triedProxies and
\* consecutiveFailures at 0; and at all times the list is what the latest
\* fetch returned.
C14_RefreshReplacesListAndResets ==
    /\ [](proxies = lastFetched)
    /\ [][ (pc = "refreshFailures" \/ pc = "refreshTried") =>
             ( /\ lastFetched' \in SourceLists
               /\ proxies' = lastFetched'
               /\ currentProxyIndex' = 0
               /\ triedProxies' = 0
               /\ consecutiveFailures' = 0 ) ]_vars

\* C14 witness: a refresh after 20 consecutive failures has just replaced a
\* list by a different, non-empty one.
C14_Witness ==
    /\ pc = "loopHead"
    /\ sessionsSinceFetch = 0
    /\ successfulViews = 0
    /\ proxy # NoProxy
    /\ Len(proxies) = 2
    /\ \A i \in 1..Len(proxies) : proxies[i] # proxy

\* C15: a proxy whose sessions failed maxFailures times in a row is not
\* selected for a session again before a refresh.  The list is walked round
\* robin and consecutiveFailures restarts at every refresh and every success,
\* so when a session starts, the selected entry has failed
\* consecutiveFailures \div Len(proxies) sessions in a row since then: that
\* number is below maxFailures whenever a session starts.
C15_FailedProxyNotSelectedAgain ==
    pc = "quickCheck" => (consecutiveFailures \div Len(proxies)) < maxFailures

C17_OnlyNetworkFailuresRetried ==
    /\ [](pc = "retrySleep" => errorKind = "network")
    /\ [][ (pc = "fetch" /\ errorKind' = "other") =>
             (pc' = "afterSession" /\ ~success') ]_vars
    /\ []((pc \in {"quickCheck", "fetch", "retrySleep", "hold", "afterSession"}
            /\ GetProxyAgent(proxy) = "null") => fetches = 0)

\* C18: a watchVideo call whose quick check did not return true (the probe
\* failed or did not settle in time, or the proxy has no agent) returns false
\* in the same step, without a request for the video and without the hold;
\* the request for the video, the retry sleep and the hold happen only in a
\* call whose quick check returned true.
C18_QuickCheckGatesTheFetch ==
    /\ [](pc \in {"fetch", "retrySleep", "hold"} => isResponsive)
    /\ []((pc \in {"quickCheck", "fetch", "retrySleep", "hold", "afterSession"}
            /\ ~isResponsive) => fetches = 0)
    /\ []((pc = "afterSession" /\ ~isResponsive) => ~success)
    /\ [][ (pc = "quickCheck" /\ ~isResponsive') =>
             (pc' = "afterSession" /\ ~success' /\ fetches' = 0) ]_vars

\* C18 witness: a call on a proxy with a supported protocol returned false
\* because the probe of the quick check failed or timed out.
C18_Witness ==
    /\ pc = "afterSession"
    /\ ~isResponsive
    /\ GetProxyAgent(proxy) = "agent"
    /\ fetches = 0
    /\ ~success

\* C19: no failure of a session ends main(): a step of watchVideo stays in
\* the call or returns to main() with the run still going; a returned
\* failure is counted in consecutiveFailures, moves the cursor to the next
\* record and leads on to the rest of the iteration; and main() ends only
\* with the summary, with the exit after an empty initial fetch, or on
\* reading a record from an empty list.
C19_SessionFailureNeverEndsTheLoop ==
    /\ [][ (pc \in {"quickCheck", "fetch", "retrySleep", "hold"}) =>
             /\ pc' \in {"fetch", "retrySleep", "hold", "afterSession"}
             /\ outcome' = "running" ]_vars
    /\ [][ (pc = "afterSession" /\ ~success) =>
             /\ consecutiveFailures' = consecutiveFailures + 1
             /\ currentProxyIndex' = (currentProxyIndex + 1) % Len(proxies)
             /\ pc' \in {"delayCheck", "refreshTried"}
             /\ outcome' = "running" ]_vars
    /\ [](pc = "ended" =>
            \/ outcome \in {"Summary", "NoProxiesExit"}
            \/ outcome = "UncaughtTypeError" /\ Len(proxies) = 0)

\* C19 witness: after a session that failed with an error other than a
\* network error, main() is back at the head of the loop.
C19_Witness ==
    /\ pc = "loopHead"
    /\ outcome = "running"
    /\ ~success
    /\ errorKind = "other"
    /\ consecutiveFailures > 0
    /\ currentProxyIndex = 1

\* C20: the event loop keeps running the callbacks of a watchVideo call
\* (SpecSession).  A quick check that was started is eventually resolved; on
\* a proxy that never answers the probe it is resolved by the timer of
\* QUICK_CHECK_TIMEOUT, to false, and the call returns false without a
\* request; and every call that was started eventually returns, also on a
\* proxy that never answers the request for the video, where it returns false
\* after MAX_RETRIES requests that timed out.
C20_SilentProxyCannotBlock ==
    /\ (pc = "quickCheck") ~> (pc \in {"fetch", "afterSession"})
    /\ [][ (pc = "quickCheck" /\ proxy \in env.silentProbe) =>
             (~isResponsive' /\ pc' = "afterSession" /\ ~success') ]_vars
    /\ (pc = "logAttempt") ~> (pc = "afterSession")
    /\ []((pc = "afterSession" /\ isResponsive /\ proxy \in env.silentFetch) =>
            (~success /\ fetches = MAX_RETRIES /\ errorKind = "network"))

\* C20 witness: the call on a proxy with a supported protocol that never
\* answers the probe has returned false.
C20_Witness ==
    /\ pc = "afterSession"
    /\ proxy \in env.silentProbe
    /\ GetProxyAgent(proxy) = "agent"
    /\ ~isResponsive
    /\ ~success

\* C21: main() keeps taking steps (SpecOneGood).  When the source returns
\* three proxies whose sessions all succeed at the first request and
\* viewCount = 3, the run takes no refresh, every session issues one request,
\* the i-th session is on the i-th proxy of the list, and the run eventually
\* ends, with the summary, successfulViews = 3 and exactly 3 sessions run.
C21_ThreeGoodProxiesThreeViews ==
    /\ []((env = AllGoodWorld /\ viewCount = 3) =>
            /\ pc \notin {"refreshFailures", "refreshTried", "retrySleep"}
            /\ sessionsSinceFetch <= 3
            /\ (pc \in {"quickCheck", "fetch", "hold"} =>
                   /\ sessionsSinceFetch < 3
                   /\ proxy = AllGoodList[sessionsSinceFetch + 1])
            /\ (pc = "afterSession" =>
                   /\ success /\ fetches = 1
                   /\ proxy = AllGoodList[sessionsSinceFetch])
            /\ (pc = "ended" =>
                   /\ outcome = "Summary"
                   /\ successfulViews = 3
                   /\ sessionsSinceFetch = 3))
    /\ (env = AllGoodWorld /\ viewCount = 3) ~> (pc = "ended")

\* C21 witness: the run on the three good proxies has ended after its third
\* session, which was on the third proxy.
C21_Witness ==
    /\ env = AllGoodWorld
    /\ viewCount = 3
    /\ pc = "ended"
    /\ successfulViews = 3
    /\ proxy = AllGoodList[3]

\* C22: main() keeps taking steps (SpecOneGood).  When the source returns a
\* proxy whose every request for the video times out followed by a proxy whose
\* sessions always succeed, and viewCount = 2: every session on the first
\* issues MAX_RETRIES requests, returns false and is counted as one failure;
\* the session after it is on the second proxy and succeeds at its first
\* request; no refresh is taken; and the run eventually ends, with the
\* summary and successfulViews = 2.
C22_TimeoutProxyThenGoodProxy ==
    /\ []((env = TimeoutThenGoodWorld /\ viewCount = 2) =>
            /\ pc \notin {"refreshFailures", "refreshTried"}
            /\ consecutiveFailures <= 1
            /\ (pc \in {"quickCheck", "fetch", "retrySleep", "hold"} =>
                   proxy = TimeoutThenGoodList[(sessionsSinceFetch % 2) + 1])
            /\ ((pc = "afterSession" /\ proxy = TimeoutProxy) =>
                   (~success /\ fetches = MAX_RETRIES /\ errorKind = "network"))
            /\ ((pc = "afterSession" /\ proxy = GoodProxy) =>
                   (success /\ fetches = 1))
            /\ (pc = "ended" => (outcome = "Summary" /\ successfulViews = 2)))
    /\ [][ (env = TimeoutThenGoodWorld /\ viewCount = 2
              /\ pc = "afterSession" /\ proxy = TimeoutProxy) =>
             /\ consecutiveFailures' = consecutiveFailures + 1
             /\ successfulViews' = successfulViews
             /\ currentProxyIndex' = 1 ]_vars
    /\ (env = TimeoutThenGoodWorld /\ viewCount = 2) ~> (pc = "ended")

\* C22 witness: the run has ended with two views after four sessions, two on
\* each proxy.
C22_Witness ==
    /\ env = TimeoutThenGoodWorld
    /\ viewCount = 2
    /\ pc = "ended"
    /\ successfulViews = 2
    /\ proxy = GoodProxy
    /\ sessionsSinceFetch = 4

\* C23: initializing a pool with no record is reported as a failure
\* (initialize() returns false) and leaves the pool empty: no placeholder
\* record is put in it.
C23_EmptyInitializeFailsAndStaysEmpty ==
    [][ (Len(pmProxies) = 0 /\ lastCall'.op = "initialize") =>
          (lastCall'.ret = "false" /\ pmProxies' = <<>>) ]_vars

\* C24: in every state of a ProxyManager, from construction onward, a proxy
\* of the pool is in the working set exactly when its failure counter is
\* below maxFailures, and getWorkingProxyCount() is the number of pool
\* proxies whose counter is below maxFailures.
C24_WorkingIffBelowThreshold ==
    /\ \A p \in PoolSet : (p \in workingProxies) <=> (proxyFailures[p] < maxFailures)
    /\ GetWorkingProxyCount =
         Cardinality({ p \in PoolSet : proxyFailures[p] < maxFailures })

\* C25: reportProxySuccess(p) leaves p's failure counter at 0 and p in the
\* working set whatever the counter was, and changes no other proxy's
\* counter or working status, nor the pool, nor the cursor.
C25_ReportSuccessFrame ==
    [][ (lastCall'.op = "reportProxySuccess") =>
          /\ proxyFailures'[lastCall'.ret] = 0
          /\ lastCall'.ret \in workingProxies'
          /\ \A q \in PMProxyIds \ {lastCall'.ret} :
               /\ proxyFailures'[q] = proxyFailures[q]
               /\ (q \in workingProxies') <=> (q \in workingProxies)
          /\ currentIndex' = currentIndex
          /\ pmProxies' = pmProxies ]_vars

\* a success reported while another pool proxy is excluded and the cursor
\* has moved
C25_Witness ==
    /\ lastCall.op = "reportProxySuccess"
    /\ lastCall.ret \in PoolSet
    /\ proxyFailures[lastCall.ret] = 0
    /\ lastCall.ret \in workingProxies
    /\ currentIndex > 0
    /\ \E q \in PoolSet \ {lastCall.ret} :
         /\ proxyFailures[q] >= maxFailures
         /\ q \notin workingProxies

\* C26: whenever minWatchDuration <= maxWatchDuration are configured, the
\* watch duration drawn for a session is an integer between the two,
\* bounds included, and every integer between the two can be drawn.
C26_WatchDurationWithinConfiguredRange ==
    /\ (watchPc \in {"hold", "sleep", "returned"}) =>
          (watchDuration \in minWatchDuration..maxWatchDuration)
    /\ (watchPc = "draw") =>
          \A d \in minWatchDuration..maxWatchDuration :
             \E k \in Randoms : RandomInt(k, MinDuration, MaxDuration_) = d

\* C27: once the request for the video has been answered and a watch
\* duration of at least one second has been drawn, the hold loop ends and
\* the session returns true, in every variant of watchVideo.
C27_HoldLoopTerminates ==
    (variant \in {"index", "first", "second"} /\ watchPc = "hold" /\ watchDuration >= 1)
        ~> (watchPc = "returned")

\* C28: the inter-view delay is waited after a session exactly when
\* successfulViews < viewCount at that point: after every failed session and
\* after every successful session but the one that makes successfulViews
\* equal viewCount.
C28_DelayExactlyWhenViewsMissing ==
    /\ [][ (pc = "afterSession") => (pc' = "delayCheck" \/ pc' = "refreshTried") ]_vars
    /\ [][ (pc = "refreshTried") => (pc' = "delayCheck") ]_vars
    /\ [][ (pc = "delayCheck") =>
             /\ (successfulViews < viewCount => pc' = "delay")
             /\ (~(successfulViews < viewCount) => pc' = "loopHead")
             /\ (~success => pc' = "delay")
             /\ (success /\ successfulViews # viewCount => pc' = "delay")
             /\ (success /\ successfulViews = viewCount => pc' = "loopHead") ]_vars
    /\ [][ (pc' = "delay") => (pc = "delayCheck" \/ pc = "delay") ]_vars

\* the delay waited after a failed session that follows a successful one
C28_Witness ==
    /\ pc = "delay"
    /\ ~success
    /\ successfulViews >= 1
    /\ successfulViews < viewCount

\* C29: a watch session is linear with bounded retry: the quick-check runs
\* only at the start of the session, before any request for the video, and
\* at most once; once a request for the video has been made no quick-check
\* runs in that session; once the session has returned neither a quick-check
\* nor a request is made for it; and a retry stays in the session: it goes
\* back to the request, with the same proxy, cursor and counters.
C29_SessionLinearWithRetries ==
    /\ [](pc = "quickCheck" => fetches = 0)
    /\ [][ (pc' = "quickCheck") => (pc = "logAttempt" \/ pc = "quickCheck") ]_vars
    /\ [][ (pc = "quickCheck") => (pc' = "fetch" \/ pc' = "afterSession") ]_vars
    /\ [][ (fetches' # fetches) => (pc = "fetch" \/ pc = "logAttempt") ]_vars
    /\ [][ (pc = "afterSession") =>
             /\ fetches' = fetches
             /\ pc' \notin {"quickCheck", "fetch", "retrySleep", "hold"} ]_vars
    /\ [][ (pc = "retrySleep") =>
             /\ pc' = "fetch"
             /\ proxy' = proxy
             /\ proxies' = proxies
             /\ currentProxyIndex' = currentProxyIndex
             /\ triedProxies' = triedProxies
             /\ sessionsSinceFetch' = sessionsSinceFetch
             /\ isResponsive' = isResponsive ]_vars

\* a session about to make its third request for the video
C29_Witness ==
    /\ pc = "fetch"
    /\ isResponsive
    /\ fetches = 2
    /\ attempt = 2
    /\ currentProxyIndex = 1

\* C29 as stated: the quick-check runs at most once per session and only
\* before the first request; after a request has been made, or after the
\* session has returned, no quick-check and no request is made for that
\* session; a retry does not start a session or move the cursor.
C29_NoRequestAfterARequest ==
    /\ [](pc = "quickCheck" => fetches = 0)
    /\ [][ (pc' = "quickCheck") => (pc = "logAttempt" \/ pc = "quickCheck") ]_vars
    /\ [][ (fetches >= 1 /\ (pc = "fetch" \/ pc = "retrySleep" \/ pc = "hold"
                              \/ pc = "afterSession")) =>
             /\ fetches' = fetches
             /\ pc' # "quickCheck" ]_vars
    /\ [][ (pc = "retrySleep") =>
             /\ currentProxyIndex' = currentProxyIndex
             /\ sessionsSinceFetch' = sessionsSinceFetch ]_vars

\* C30: getRandomProxy on an empty pool returns null; on a non-empty pool
\* it returns a proxy of the pool whose failure counter is below maxFailures
\* when it returns; when no pool proxy is below the threshold it first
\* clears every counter, and otherwise it changes no counter.  The Proxy
\* class, which keeps no counters, draws from the pool as well.
C30_RandomProxyBelowThreshold ==
    /\ []((lastCall.op = "getRandomProxy") =>
            IF Len(pmProxies) = 0
              THEN lastCall.ret = Null
              ELSE /\ lastCall.ret \in PoolSet
                   /\ proxyFailures[lastCall.ret] < maxFailures)
    /\ [][ (lastCall'.op = "getRandomProxy" /\ Len(pmProxies) > 0) =>
             IF \A p \in PoolSet : proxyFailures[p] >= maxFailures
               THEN /\ lastCall'.reset
                    /\ \A p \in PMProxyIds : proxyFailures'[p] = 0
                    /\ workingProxies' = PoolSet
               ELSE /\ ~lastCall'.reset
                    /\ proxyFailures' = proxyFailures
                    /\ workingProxies' = workingProxies ]_vars
    /\ [][ (lastCall'.op = "getRandomProxy") =>
             (pmProxies' = pmProxies /\ currentIndex' = currentIndex) ]_vars
    /\ []((Len(pmProxies) > 0) =>
            /\ ProxyRandomReturns(pmProxies) # {}
            /\ ProxyRandomReturns(pmProxies) \subseteq PoolSet)

\* a random pick from a pool one of whose proxies is excluded
C30_Witness ==
    /\ lastCall.op = "getRandomProxy"
    /\ ~lastCall.reset
    /\ lastCall.ret \in PoolSet
    /\ \E q \in PoolSet : proxyFailures[q] >= maxFailures

\* C32: every getNextProxy call on a non-empty pool returns the proxy at
\* some position k and leaves the cursor at (k + 1) mod len, a call that
\* performs a bulk reset included; so with two or more proxies in the pool
\* the proxy one call returns is not returned by the call that follows it
\* directly (the pool holding each proxy once).
C32_CursorFollowsReturnedPosition ==
    /\ []((lastCall.op = "getNextProxy" /\ lastCall.ret # Null) =>
            /\ lastCall.pos \in 0..(Len(pmProxies) - 1)
            /\ pmProxies[lastCall.pos + 1] = lastCall.ret
            /\ currentIndex = (lastCall.pos + 1) % Len(pmProxies))
    /\ [][ (/\ lastCall.op = "getNextProxy"
            /\ lastCall'.op = "getNextProxy"
            /\ lastCall.ret # Null
            /\ Len(pmProxies) >= 2
            /\ Cardinality(PoolSet) = Len(pmProxies)) =>
             lastCall'.ret # lastCall.ret ]_vars

\* C33: the step that handles a returned session sets consecutiveFailures to
\* 0 when the session succeeded and adds exactly 1 when it failed; so at the
\* head of every loop iteration consecutiveFailures is the number of sessions
\* that failed since the later of the last successful session and the last
\* refresh.
C33_ConsecutiveFailuresCountsFailedRun ==
    /\ [][ (pc = "afterSession" /\ success) => consecutiveFailures' = 0 ]_vars
    /\ [][ (pc = "afterSession" /\ ~success) =>
             consecutiveFailures' = consecutiveFailures + 1 ]_vars
    /\ []((pc \in {"loopHead", "refreshFailures", "readProxy", "logAttempt"}) =>
            consecutiveFailures = failedSince)

\* the head of an iteration after a view and three failed sessions
C33_Witness ==
    /\ pc = "loopHead"
    /\ successfulViews = 1
    /\ consecutiveFailures = 3
    /\ failedSince = 3
    /\ sessionsSinceFetch = 4

\* C34: in every state of the loop of main(), 0 <= consecutiveFailures <=
\* triedProxies and consecutiveFailures <= 20, and at the head of every
\* iteration triedProxies < MAX_PROXIES_TO_TRY.
C34_LoopCountersBounded ==
    /\ 0 <= consecutiveFailures
    /\ consecutiveFailures <= triedProxies
    /\ consecutiveFailures <= FAILURE_REFRESH_THRESHOLD
    /\ (pc \in {"loopHead", "readProxy", "logAttempt", "quickCheck"} =>
          triedProxies < MAX_PROXIES_TO_TRY)

\* the head of the iteration that refreshes after 20 failed sessions in a
\* row, which followed a successful one
C34_Witness ==
    /\ pc = "loopHead"
    /\ consecutiveFailures = FAILURE_REFRESH_THRESHOLD
    /\ triedProxies > consecutiveFailures
    /\ successfulViews >= 1

\* C35: a refresh of the list, whichever test triggered it, leaves
\* successfulViews (and viewCount) as they are; so does every step in which
\* fetchProxies is called.
C35_RefreshKeepsSuccessfulViews ==
    /\ [][ (pc = "refreshFailures" \/ pc = "refreshTried") =>
             (successfulViews' = successfulViews /\ viewCount' = viewCount) ]_vars
    /\ [][ (sessionsSinceFetch' < sessionsSinceFetch) =>
             (successfulViews' = successfulViews /\ viewCount' = viewCount) ]_vars

\* the list has just been refreshed, after two views were counted and the
\* sessions that followed failed
C35_Witness ==
    /\ pc = "loopHead"
    /\ sessionsSinceFetch = 0
    /\ ~success
    /\ successfulViews >= 2
    /\ successfulViews < viewCount

\* C36 (amended): once successfulViews equals viewCount no session is
\* started, and no fetchProxies call happens but the one of the iteration
\* that produced the last view, when its session was the
\* MAX_PROXIES_TO_TRY-th since the last fetch; main() then leaves the loop.
C36_OnlyTheTriedLimitFetchAfterLastView ==
    /\ []((successfulViews = viewCount) =>
            pc \in {"refreshTried", "delayCheck", "loopHead", "ended"})
    /\ [][ (successfulViews = viewCount /\ pc # "refreshTried") =>
             /\ sessionsSinceFetch' = sessionsSinceFetch
             /\ lastFetched' = lastFetched
             /\ proxies' = proxies ]_vars
    /\ [][ (successfulViews = viewCount /\ pc = "refreshTried") =>
             (pc' = "delayCheck" /\ sessionsSinceFetch = MAX_PROXIES_TO_TRY) ]_vars
    /\ [][ (successfulViews = viewCount /\ pc = "delayCheck") => pc' = "loopHead" ]_vars
    /\ [][ (successfulViews = viewCount /\ pc = "loopHead") =>
             (pc' = "ended" /\ outcome' = "Summary") ]_vars

\* the list has just been fetched again after the session that produced
\* the last view
C36_Witness ==
    /\ pc = "delayCheck"
    /\ successfulViews = viewCount
    /\ success
    /\ sessionsSinceFetch = 0

\* C36 as stated: once successfulViews equals viewCount no fetchProxies
\* call happens: no step taken in such a state is a fetch.
C36_NoFetchAfterLastView ==
    [][ (successfulViews = viewCount) =>
          (sessionsSinceFetch' >= sessionsSinceFetch /\ lastFetched' = lastFetched) ]_vars

\* C37: in every state of a ProxyManager the working set is a subset of the
\* pool, so getWorkingProxyCount() <= getProxyCount(), whatever proxies
\* reportProxySuccess and reportProxyFailure are called with.
C37_WorkingSubsetOfPool ==
    /\ workingProxies \subseteq PoolSet
    /\ GetWorkingProxyCount <= GetProxyCount

LoopPosition ==
    IF pc \in {"quickCheck", "fetch", "retrySleep", "hold"} THEN "watchVideo" ELSE pc

\* C40: given the same session outcomes and the same refresh results, the loop
\* of index.js and the loop of the second script of part_000 go through the
\* same (successfulViews, currentProxyIndex, triedProxies,
\* consecutiveFailures), select the same proxies and refresh at the same
\* points.
C40_LoopsInLockStep ==
    /\ second.pc = LoopPosition
    /\ second.outcome = outcome
    /\ second.successfulViews = successfulViews
    /\ second.currentProxyIndex = currentProxyIndex
    /\ second.triedProxies = triedProxies
    /\ second.consecutiveFailures = consecutiveFailures
    /\ second.proxies = proxies
    /\ second.proxy = proxy

\* both scripts have refreshed after too many consecutive failures, with views
\* behind them and views still missing, and have selected the first proxy of
\* the new list
C40_Witness ==
    /\ pc = "logAttempt"
    /\ second.pc = "logAttempt"
    /\ sessionsSinceFetch = 0
    /\ second.successfulViews >= 2
    /\ second.successfulViews < viewCount
    /\ second.proxy = second.proxies[1]
    /\ ~second.success

\* C31: the list fetchProxies() of the second script returns has no two records
\* of the same key protocol://host:port, its keys are the keys of all records
\* of the file and the providers, and the record of each key is the first one
\* of that key in merge order (the file's records, then the providers').
C31_MergeKeepsFirstRecordPerKey ==
    second.pc # "fetchInitial" =>
      LET out == second.proxies
          all == AllProxies(env)
      IN  /\ \A i, j \in 1..Len(out) :
                i # j => SecondKey(out[i]) # SecondKey(out[j])
          /\ { SecondKey(out[i]) : i \in 1..Len(out) }
               = { SecondKey(all[k]) : k \in 1..Len(all) }
          /\ \A i \in 1..Len(out) :
                \E k \in 1..Len(all) :
                    /\ out[i] = all[k]
                    /\ \A m \in 1..(k - 1) : SecondKey(all[m]) # SecondKey(out[i])

\* a fetch in which a key of the file comes again, in another record, from a
\* provider, and a second key comes from a provider only
C31_Witness ==
    /\ second.pc = "loopHead"
    /\ Len(second.proxies) = 2
    /\ \E i \in 1..Len(env.file), k \in 1..Len(AllProxies(env)) :
          /\ k > Len(env.file)
          /\ SecondKey(AllProxies(env)[k]) = SecondKey(env.file[i])
          /\ AllProxies(env)[k] # env.file[i]

\* C38: for every interleaving of the timer callback and the request's
\* callbacks of a quick check, the result is the outcome of the callback that
\* fired first; the proxy record is marked working (proxy.working = true,
\* lastChecked updated) only by a quick check that resolved to true; and a
\* response that arrives after the timer resolved the check to false changes
\* nothing.
C38_FirstCallbackDecidesAndOnlyTrueMarks ==
    /\ [](check.resolved # "pending" =>
             check.resolved = IF check.first = "answer" THEN "true" ELSE "false")
    /\ [][ /\ (check'.working # check.working \/ check'.lastChecked # check.lastChecked)
                => check'.resolved = "true"
           /\ (check.resolved = "false" /\ check.first = "timer"
                 /\ check'.request = "answered" /\ check.request = "inFlight")
                => /\ check'.working = check.working
                   /\ check'.lastChecked = check.lastChecked
                   /\ check'.resolved = check.resolved ]_vars

====
